---- MODULE Spec2Model ----
(***************************************************************************)
(* The flow realization engine of nifi-agent: FlowBuilder.buildFlow of     *)
(* src/src/nifi/client.ts (lines 266-503), driven against a remote engine  *)
(* whose calls may each succeed or fail.                                   *)
(*                                                                         *)
(* buildFlow is one async function.  It runs atomically between two        *)
(* awaits, so the model has one action that issues the remote call the     *)
(* function has reached, and for every call site one action for the        *)
(* successful response and one for the thrown error; each response action  *)
(* runs the code up to the next await (or to the return).                  *)
(*                                                                         *)
(* Indices into the definition are 0-based as in the source; TLA+          *)
(* sequences are 1-based, hence the "+ 1" where an array is read.          *)
(***************************************************************************)
EXTENDS Integers, Sequences, FiniteSets, TLC

----------------------------------------------------------------------------
(* Bounds of the model *)

MaxProcs == 2
MaxConns == 2
MaxSvcs == 2

----------------------------------------------------------------------------
(* JavaScript values and objects *)

\* the value of a missing key / missing array element
Undefined == "<undefined>"

\* !v for the values a property map holds (strings and undefined)
Falsy(v) == v = Undefined \/ v = ""

\* A JS object (Record<string, string>) is the sequence of its <<key, value>>
\* entries in insertion order.
ObjKeys(obj) == {obj[n][1] : n \in 1..Len(obj)}

ObjGet(obj, k) ==
    IF k \in ObjKeys(obj)
    THEN LET n == CHOOSE m \in 1..Len(obj) : obj[m][1] = k IN obj[n][2]
    ELSE Undefined

\* obj[k] = v : an existing key keeps its place, a new key goes last
ObjPut(obj, k, v) ==
    IF k \in ObjKeys(obj)
    THEN [n \in 1..Len(obj) |-> IF obj[n][1] = k THEN <<k, v>> ELSE obj[n]]
    ELSE Append(obj, <<k, v>>)

\* { ...target, ...src }
RECURSIVE ObjSpread(_, _)
ObjSpread(target, src) ==
    IF src = <<>> THEN target
    ELSE ObjSpread(ObjPut(target, Head(src)[1], Head(src)[2]), Tail(src))

\* array.includes(x)
ArrIncludes(arr, x) == \E n \in 1..Len(arr) : arr[n] = x

\* A type name is the sequence of its parts, so that String.includes can be
\* computed: 'org.apache.nifi.processors.mqtt.PublishMQTT' is
\* <<"org.apache.nifi.processors.mqtt.", "PublishMQTT">>.
StrIncludes(str, part) == \E n \in 1..Len(str) : str[n] = part

\* a partial map Record<number, T>: a function on the indices written so far
MapGet(map, k) == IF k \in DOMAIN map THEN map[k] ELSE Undefined

MapPut(map, k, v) == [n \in (DOMAIN map) \cup {k} |-> IF n = k THEN v ELSE map[n]]

EmptyMap == [n \in {} |-> Undefined]

----------------------------------------------------------------------------
(* The catalog (src/src/processors/catalog.ts) *)

processorCatalog ==
    [ PublishMQTT |->
        [ type |-> <<"org.apache.nifi.processors.mqtt.", "PublishMQTT">>,
          defaultProperties |-> << <<"Quality of Service", "1">>,
                                   <<"Retain Message", "false">> >> ],
      ConsumeMQTT |->
        [ type |-> <<"org.apache.nifi.processors.mqtt.", "ConsumeMQTT">>,
          defaultProperties |-> << <<"Quality of Service", "1">>,
                                   <<"Max Queue Size", "1000">> >> ],
      ExecuteSQL |->
        [ type |-> <<"org.apache.nifi.processors.standard.", "ExecuteSQL">>,
          defaultProperties |-> << >> ],
      ExecuteSQLRecord |->
        [ type |-> <<"org.apache.nifi.processors.standard.", "ExecuteSQLRecord">>,
          defaultProperties |-> << >> ],
      ConvertRecord |->
        [ type |-> <<"org.apache.nifi.processors.standard.", "ConvertRecord">>,
          defaultProperties |-> << >> ],
      UpdateAttribute |->
        [ type |-> <<"org.apache.nifi.processors.attributes.", "UpdateAttribute">>,
          defaultProperties |-> << >> ],
      JoltTransformJSON |->
        [ type |-> <<"org.apache.nifi.processors.standard.", "JoltTransformJSON">>,
          defaultProperties |-> << <<"Jolt Transform", "Chain">> >> ],
      GetFile |->
        [ type |-> <<"org.apache.nifi.processors.standard.", "GetFile">>,
          defaultProperties |-> << <<"Keep Source File", "false">> >> ],
      PutFile |->
        [ type |-> <<"org.apache.nifi.processors.standard.", "PutFile">>,
          defaultProperties |-> << <<"Create Missing Directories", "true">>,
                                   <<"Conflict Resolution Strategy", "fail">> >> ],
      InvokeHTTP |->
        [ type |-> <<"org.apache.nifi.processors.standard.", "InvokeHTTP">>,
          defaultProperties |-> << <<"HTTP Method", "GET">> >> ],
      GenerateFlowFile |->
        [ type |-> <<"org.apache.nifi.processors.standard.", "GenerateFlowFile">>,
          defaultProperties |-> << <<"Batch Size", "1">> >> ],
      LogAttribute |->
        [ type |-> <<"org.apache.nifi.processors.standard.", "LogAttribute">>,
          defaultProperties |-> << <<"Log Level", "info">>,
                                   <<"Log Payload", "false">> >> ],
      LogMessage |->
        [ type |-> <<"org.apache.nifi.processors.standard.", "LogMessage">>,
          defaultProperties |-> << <<"Log Level", "info">> >> ] ]

controllerServiceCatalog ==
    [ DBCPConnectionPool  |-> [ type |-> <<"org.apache.nifi.dbcp.", "DBCPConnectionPool">> ],
      JsonTreeReader      |-> [ type |-> <<"org.apache.nifi.json.", "JsonTreeReader">> ],
      JsonRecordSetWriter |-> [ type |-> <<"org.apache.nifi.json.", "JsonRecordSetWriter">> ],
      AvroReader          |-> [ type |-> <<"org.apache.nifi.avro.", "AvroReader">> ],
      AvroRecordSetWriter |-> [ type |-> <<"org.apache.nifi.avro.", "AvroRecordSetWriter">> ] ]

\* catalog[key]: a key is a one-part name; anything else is not in the catalog
InCatalog(catalog, key) == Len(key) = 1 /\ key[1] \in DOMAIN catalog

\* const processorType = procInfo?.type || procDef.type
ResolveProcessorType(key) ==
    IF InCatalog(processorCatalog, key) THEN processorCatalog[key[1]].type ELSE key

\* const serviceType = serviceInfo?.type || serviceDef.type
ResolveServiceType(key) ==
    IF InCatalog(controllerServiceCatalog, key)
    THEN controllerServiceCatalog[key[1]].type ELSE key

\* procInfo?.defaultProperties || {}
DefaultProperties(key) ==
    IF InCatalog(processorCatalog, key)
    THEN processorCatalog[key[1]].defaultProperties ELSE << >>

----------------------------------------------------------------------------
(* The pure steps of one processor iteration (client.ts 362-414) *)

\* fault: the defaults are laid over the explicit properties
MergeDefaultsWin(defaultProps, explicitProps) ==
    ObjSpread(ObjSpread(<< >>, explicitProps), defaultProps)

\* const properties = { ...defaultProps, ...procDef.properties }
MergeProperties(defaultProps, explicitProps) ==
    ObjSpread(ObjSpread(<< >>, defaultProps), explicitProps)

\* if (!properties[k]) properties[k] = v
PutIfFalsy(obj, k, v) == IF Falsy(ObjGet(obj, k)) THEN ObjPut(obj, k, v) ELSE obj

\* the sample content written for a generator without Custom Text
CustomTextSample == "{ timestamp, message, uuid }"

\* "Add required properties for specific processors"
CompletionRules(processorType, props) ==
    LET p1 == IF StrIncludes(processorType, "PublishMQTT")
              THEN PutIfFalsy(PutIfFalsy(props, "Retain Message", "false"),
                              "Quality of Service", "1")
              ELSE props
        p2 == IF StrIncludes(processorType, "ConsumeMQTT")
              THEN PutIfFalsy(p1, "Quality of Service", "1")
              ELSE p1
    IN  IF StrIncludes(processorType, "GenerateFlowFile")
        THEN PutIfFalsy(PutIfFalsy(p2, "Custom Text", CustomTextSample),
                        "Data Format", "Text")
        ELSE p2

\* fault: every processor but the last of the list is taken for a source
IsSourceByPosition(def, i) == i < Len(def.processors) - 1

\* definition.connections.some(c => c.from_index === i)
IsSource(def, i) ==
    \E n \in 1..Len(def.connections) : def.connections[n].from_index = i

HasAutoTerminate(procDef) == "auto_terminate" \in DOMAIN procDef

\* fault: the relationship is pushed without looking whether it is listed
PushAlways(arr, x) == Append(arr, x)

\* if (!arr.includes(x)) arr.push(x)
PushIfMissing(arr, x) == IF ArrIncludes(arr, x) THEN arr ELSE Append(arr, x)

\* The leaf auto-termination inference; it writes to procDef, that is, to the
\* definition object the caller passed in.
InferAutoTerminate(def, i) ==
    LET procDef == def.processors[i + 1]
        processorType == ResolveProcessorType(procDef.type)
        listed == IF HasAutoTerminate(procDef) THEN procDef.auto_terminate ELSE << >>
        inferred == PushIfMissing(PushIfMissing(listed, "success"), "failure")
        newDef == [name |-> procDef.name, type |-> procDef.type,
                   properties |-> procDef.properties, auto_terminate |-> inferred]
    IN  IF ~IsSource(def, i) /\ StrIncludes(processorType, "PublishMQTT")
        THEN [def EXCEPT !.processors[i + 1] = newDef]
        ELSE def

HasServices(def) == "controller_services" \in DOMAIN def

NumServices(def) == IF HasServices(def) THEN Len(def.controller_services) ELSE 0

HasReferencedBy(serviceDef) == "referenced_by" \in DOMAIN serviceDef

\* the inner loop "for (const ref of serviceDef.referenced_by)", from entry r on
RECURSIVE SubstituteRefs(_, _, _, _, _)
SubstituteRefs(props, refs, r, i, serviceId) ==
    IF r > Len(refs) THEN props
    ELSE SubstituteRefs(
            IF refs[r].processor_index = i
            THEN ObjPut(props, refs[r].property_name, serviceId)
            ELSE props,
            refs, r + 1, i, serviceId)

\* the outer loop "for (const serviceDef of definition.controller_services)",
\* from service s on; indexOf(serviceDef) is the position of the element itself
RECURSIVE SubstituteServices(_, _, _, _, _)
SubstituteServices(props, services, s, i, idMap) ==
    IF s > Len(services) THEN props
    ELSE SubstituteServices(
            IF HasReferencedBy(services[s])
            THEN SubstituteRefs(props, services[s].referenced_by, 1, i,
                                MapGet(idMap, s - 1))
            ELSE props,
            services, s + 1, i, idMap)

\* "Replace controller service references with IDs"
ReplaceServiceReferences(props, def, i, idMap) ==
    IF HasServices(def)
    THEN SubstituteServices(props, def.controller_services, 1, i, idMap)
    ELSE props

\* fault: the references are substituted into the defaults, before the
\* explicit properties are laid over them
FinalPropertiesSubstituteFirst(def, i, idMap) ==
    LET procDef == def.processors[i + 1]
    IN  CompletionRules(ResolveProcessorType(procDef.type),
            ObjSpread(ReplaceServiceReferences(
                          ObjSpread(<< >>, DefaultProperties(procDef.type)),
                          def, i, idMap),
                      procDef.properties))

\* the property map pushed for processor i
FinalProperties(def, i, idMap) ==
    LET procDef == def.processors[i + 1]
    IN  ReplaceServiceReferences(
            CompletionRules(ResolveProcessorType(procDef.type),
                            MergeProperties(DefaultProperties(procDef.type),
                                            procDef.properties)),
            def, i, idMap)

----------------------------------------------------------------------------
(* Layout (client.ts 320-346) *)

DefaultStartX == 100
startY == 100
spacingY == 200
spacingX == 450

\* an existing processor of the group: its component may lack a position
At(x) == [hasPosition |-> TRUE, x |-> x]

NoPosition == [hasPosition |-> FALSE, x |-> 0]

\* p.component.position?.x || 0   (0 is falsy, so it stays 0 either way)
PositionX(p) == IF p.hasPosition /\ p.x # 0 THEN p.x ELSE 0

\* Math.max(...existingProcessors.map(...)) of a non-empty array
RECURSIVE MaxX(_)
MaxX(ps) ==
    IF Len(ps) = 1 THEN PositionX(ps[1])
    ELSE LET rest == MaxX(Tail(ps))
         IN  IF PositionX(ps[1]) > rest THEN PositionX(ps[1]) ELSE rest

\* fault: the new column starts at the rightmost existing processor
ComputeStartXNoSpacing(existingProcessors) ==
    IF Len(existingProcessors) > 0
    THEN MaxX(existingProcessors)
    ELSE DefaultStartX

ComputeStartX(existingProcessors) ==
    IF Len(existingProcessors) > 0
    THEN MaxX(existingProcessors) + spacingX
    ELSE DefaultStartX

\* const position = { x: startX, y: startY + i * spacingY }
Position(sx, i) == [x |-> sx, y |-> startY + i * spacingY]

----------------------------------------------------------------------------
(* The flow definitions the runs are given *)

ProcName(n) == <<"P0", "P1", "P2", "P3">>[n + 1]

SvcName(n) == <<"S0", "S1", "S2", "S3">>[n + 1]

\* bare: nothing to configure; mqtt: properties, and auto-termination when it
\* is a sink; term: an auto-terminate list and no property
ProcessorKinds == {"bare", "mqtt", "term"}

\* the processor spec of a kind, at definition index n
ProcSpec(kind, n) ==
    CASE kind = "bare" ->
            [name |-> ProcName(n), type |-> <<"UpdateAttribute">>, properties |-> << >>]
      [] kind = "mqtt" ->
            [name |-> ProcName(n), type |-> <<"PublishMQTT">>,
             properties |-> << <<"Broker URI", "tcp://broker:1883">> >>]
      [] kind = "term" ->
            [name |-> ProcName(n), type |-> <<"UpdateAttribute">>,
             properties |-> << >>, auto_terminate |-> <<"success">>]

ServiceKinds == {"pool"}

\* the controller-service spec of a kind, at definition index n
SvcSpec(kind, n) ==
    CASE kind = "pool" ->
            [name |-> SvcName(n), type |-> <<"DBCPConnectionPool">>,
             properties |-> << <<"Database Connection URL", "jdbc:db">> >>,
             referenced_by |-> << [processor_index |-> 0,
                                   property_name |-> "Database Connection Pooling Service"] >>]
      [] kind = "reader" ->
            [name |-> SvcName(n), type |-> <<"JsonTreeReader">>, properties |-> << >>]

ConnSpec(f, t) == [from_index |-> f, to_index |-> t, relationships |-> <<"success">>]

\* from the first processor to the second, and from the second to an index
\* that a list of two processors lacks
ConnSpecs == {ConnSpec(0, 1), ConnSpec(1, 2)}

SeqsUpTo(S, n) == UNION {[1..m -> S] : m \in 0..n}

ProcessorLists ==
    {[n \in 1..Len(kinds) |-> ProcSpec(kinds[n], n - 1)] :
        kinds \in SeqsUpTo(ProcessorKinds, MaxProcs)}

ServiceLists ==
    {[n \in 1..Len(kinds) |-> SvcSpec(kinds[n], n - 1)] :
        kinds \in SeqsUpTo(ServiceKinds, MaxSvcs)}

ConnectionLists == SeqsUpTo(ConnSpecs, MaxConns)

\* controller_services is optional
Definitions ==
    {[processors |-> ps, connections |-> cs, controller_services |-> ss] :
        ps \in ProcessorLists, cs \in ConnectionLists, ss \in ServiceLists}
    \cup
    {[processors |-> ps, connections |-> cs] :
        ps \in ProcessorLists, cs \in ConnectionLists}

----------------------------------------------------------------------------
(* The remote engine *)

RootGroupId == "root"

\* the identifier the remote engine gives the object of its n-th accepted change
RemoteId(n) ==
    <<"id-1", "id-2", "id-3", "id-4", "id-5", "id-6", "id-7", "id-8", "id-9", "id-10",
      "id-11", "id-12", "id-13", "id-14", "id-15", "id-16", "id-17", "id-18", "id-19",
      "id-20", "id-21", "id-22", "id-23", "id-24">>[n]

\* what the group can hold when its topology is read
Topologies ==
    { << >>,
      << At(0), At(300), At(600) >>,
      << At(-700), NoPosition >> }

BusyGroup == << At(0), At(300), At(600) >>

ValidationStatuses == {"VALID", "INVALID"}

----------------------------------------------------------------------------
(* State *)

VARIABLES
    definition,           \* the FlowDefinition object passed to buildFlow
    given,                \* its value when buildFlow was called
    pc,                   \* the await buildFlow has reached, or how it ended
    i,                    \* the index of the loop buildFlow is in
    awaiting,             \* the call at pc is issued and not yet answered
    rootGroupId,
    result,               \* the FlowBuildResult
    serviceIdMap,
    processorIdMap,
    processorVersionMap,
    version,              \* const version of the service iteration
    startX,
    properties,           \* const properties of the processor iteration
    calls,                \* the remote calls issued so far, in order
    remoteClock,          \* the number of changes the remote engine accepted
    existingProcessors,   \* the processors the group holds before the run
    remoteStatus          \* the validation status the remote engine reports

\* the conversation around the runs (openai/service.ts, conversation/manager.ts)
VARIABLES
    conversationHistory,  \* OpenAIService.conversationHistory
    collectedParams,      \* ConversationManager.collectedParams
    at,                   \* where the conversation loop waits
    userInput,            \* the line startConversation read last
    missing,              \* the missing_parameters handleAnalysis still asks for
    response,             \* what the last processMessage call returned
    requests,             \* the message lists sent to the model so far
    toolCallCount         \* the number of tool calls the model has made

vars == <<definition, given, pc, i, awaiting, rootGroupId, result, serviceIdMap,
          processorIdMap, processorVersionMap, version, startX, properties,
          calls, remoteClock, existingProcessors, remoteStatus,
          conversationHistory, collectedParams, at, userInput, missing,
          response, requests, toolCallCount>>

CallSites == {"resolve", "svcCreate", "svcEnable", "topology",
              "procCreate", "procProps", "procAuto", "connCreate"}

EmptyResult ==
    [success |-> FALSE, processGroupId |-> "", processorIds |-> << >>,
     connectionIds |-> << >>, controllerServiceIds |-> << >>, errors |-> << >>]

\* the remote engine, which buildFlow does not write
remote == <<existingProcessors, remoteStatus>>

conversation == <<conversationHistory, collectedParams, at, userInput, missing,
                  response, requests, toolCallCount>>

\* what buildFlow does not write: the remote engine and the conversation,
\* whose objects it has no reference to
environment == <<remote, conversation>>

\* a message of the conversation history
Message(role, content) ==
    [role |-> role, content |-> content, tool_calls |-> << >>, tool_call_id |-> 0]

\* the content of a message: a text, and what is written into it
Content(text) ==
    [text |-> text, function |-> "", analysis |-> << >>, quoted |-> << >>,
     params |-> << >>]

systemPrompt == Content("system prompt")

\* conversationHistory as the constructor and resetConversation make it
SystemOnly == << Message("system", systemPrompt) >>

\* no processMessage call has returned yet
NoResponse == [type |-> Undefined]

\* the conversation after the constructors of OpenAIService and
\* ConversationManager, at its first prompt
ConversationInit ==
    /\ conversationHistory = SystemOnly
    /\ collectedParams = << >>
    /\ at = "prompt"
    /\ userInput = ""
    /\ missing = << >>
    /\ response = NoResponse
    /\ requests = << >>
    /\ toolCallCount = 0

InitWith(definitions, topologies, statuses) ==
    /\ ConversationInit
    /\ definition \in definitions
    /\ existingProcessors \in topologies
    /\ remoteStatus \in statuses
    /\ given = definition
    /\ pc = "resolve"
    /\ i = 0
    /\ awaiting = FALSE
    /\ rootGroupId = ""
    /\ result = EmptyResult
    /\ serviceIdMap = EmptyMap
    /\ processorIdMap = EmptyMap
    /\ processorVersionMap = EmptyMap
    /\ version = 0
    /\ startX = DefaultStartX
    /\ properties = << >>
    /\ calls = << >>
    /\ remoteClock = 0

Init == InitWith(Definitions, {BusyGroup}, {"VALID"})

----------------------------------------------------------------------------
(* Errors and the control flow between the awaits *)

\* An entry of result.errors: its wording (kind), the names it quotes and the
\* message of the exception it quotes; the exception of a failed call carries
\* the position of that call in calls as its message.  idx is not part of the
\* text: it is the definition index of the element the entry was written for.
ErrorString(kind, idx, names, msg) ==
    [kind |-> kind, idx |-> idx, names |-> names, msg |-> msg]

PushError(res, e) == [res EXCEPT !.errors = Append(@, e)]

\* fault: success is set without looking at errors
ReturnResultAlwaysSuccess(res) ==
    [pc |-> "returned", i |-> 0, result |-> [res EXCEPT !.success = TRUE]]

\* result.success = result.errors.length === 0; return result
ReturnResult(res) ==
    [pc |-> "returned", i |-> 0, result |-> [res EXCEPT !.success = (Len(res.errors) = 0)]]

\* fault: the outer catch rethrows
TopLevelCatchRethrows(res, msg) ==
    [pc |-> "threw", i |-> 0, result |-> res]

\* fault: the outer catch returns a result of its own, with the error only
TopLevelCatchFreshResult(res, msg) ==
    [pc |-> "returned", i |-> 0,
     result |-> PushError([res EXCEPT !.processorIds = << >>,
                                      !.connectionIds = << >>,
                                      !.controllerServiceIds = << >>],
                          ErrorString("Flow build failed", -1, << >>, msg))]

\* the outer catch: result.errors.push(`Flow build failed: ...`); return result
TopLevelCatch(res, msg) ==
    [pc |-> "returned", i |-> 0,
     result |-> PushError(res, ErrorString("Flow build failed", -1, << >>, msg))]

\* the statement that follows a phase of the try block
RECURSIVE AfterPhase(_, _, _, _)

\* the connection loop from connection k on, up to its next await: a connection
\* with a missing endpoint gets its error and is skipped
RECURSIVE EnterConnection(_, _, _, _)
\* fault: one error for each missing endpoint
EnterConnectionErrorPerEndpoint(def, k, res, idMap) ==
    IF k >= Len(def.connections) THEN AfterPhase("connections", def, res, idMap)
    ELSE LET connDef == def.connections[k + 1]
             sourceId == MapGet(idMap, connDef.from_index)
             destId == MapGet(idMap, connDef.to_index)
             e == ErrorString("Cannot create connection", k, << >>, 0)
             res1 == IF Falsy(sourceId) THEN PushError(res, e) ELSE res
             res2 == IF Falsy(destId) THEN PushError(res1, e) ELSE res1
         IN  IF Falsy(sourceId) \/ Falsy(destId)
             THEN EnterConnection(def, k + 1, res2, idMap)
             ELSE [pc |-> "connCreate", i |-> k, result |-> res]

EnterConnection(def, k, res, idMap) ==
    IF k >= Len(def.connections) THEN AfterPhase("connections", def, res, idMap)
    ELSE LET connDef == def.connections[k + 1]
             sourceId == MapGet(idMap, connDef.from_index)
             destId == MapGet(idMap, connDef.to_index)
         IN  IF Falsy(sourceId) \/ Falsy(destId)
             THEN EnterConnection(def, k + 1,
                     PushError(res, ErrorString("Cannot create connection", k, << >>, 0)),
                     idMap)
             ELSE [pc |-> "connCreate", i |-> k, result |-> res]

\* the processor loop from processor n on
EnterProcessor(def, n, res, idMap) ==
    IF n < Len(def.processors)
    THEN [pc |-> "procCreate", i |-> n, result |-> res]
    ELSE AfterPhase("processors", def, res, idMap)

\* after the property step of processor n: "Auto-terminate relationships if
\* specified"
AfterProperties(def, n, res, idMap) ==
    IF HasAutoTerminate(def.processors[n + 1])
       /\ Len(def.processors[n + 1].auto_terminate) > 0
    THEN [pc |-> "procAuto", i |-> n, result |-> res]
    ELSE EnterProcessor(def, n + 1, res, idMap)

\* fault: the catch of the processor iteration leaves the loop
ProcessorCatchBreaks(def, n, res, idMap, msg) ==
    AfterPhase("processors", def,
        PushError(res, ErrorString("Failed to create processor", n,
                                   <<def.processors[n + 1].name>>, msg)),
        idMap)

\* the catch of the processor iteration
ProcessorCatch(def, n, res, idMap, msg) ==
    EnterProcessor(def, n + 1,
        PushError(res, ErrorString("Failed to create processor", n,
                                   <<def.processors[n + 1].name>>, msg)),
        idMap)

\* the service loop from service n on
EnterService(def, n, res, idMap) ==
    IF n < NumServices(def)
    THEN [pc |-> "svcCreate", i |-> n, result |-> res]
    ELSE AfterPhase("services", def, res, idMap)

\* fault: the catch of the service iteration tries the service again
ServiceCatchRetries(def, n, res, idMap, msg) ==
    EnterService(def, n,
        PushError(res, ErrorString("Failed to create controller service", n,
                                   <<def.controller_services[n + 1].name>>, msg)),
        idMap)

\* the catch of the service iteration
ServiceCatch(def, n, res, idMap, msg) ==
    EnterService(def, n + 1,
        PushError(res, ErrorString("Failed to create controller service", n,
                                   <<def.controller_services[n + 1].name>>, msg)),
        idMap)

\* fault: the layout is computed before the services are made
AfterPhaseLayoutFirst(phase, def, res, idMap) ==
    CASE phase = "resolve"     -> [pc |-> "topology", i |-> 0, result |-> res]
      [] phase = "topology"    -> EnterService(def, 0, res, idMap)
      [] phase = "services"    -> EnterProcessor(def, 0, res, idMap)
      [] phase = "processors"  -> EnterConnection(def, 0, res, idMap)
      [] phase = "connections" -> ReturnResult(res)

\* the order of the phases in the try block (client.ts 276-498)
AfterPhase(phase, def, res, idMap) ==
    CASE phase = "resolve"     -> EnterService(def, 0, res, idMap)
      [] phase = "services"    -> [pc |-> "topology", i |-> 0, result |-> res]
      [] phase = "topology"    -> EnterProcessor(def, 0, res, idMap)
      [] phase = "processors"  -> EnterConnection(def, 0, res, idMap)
      [] phase = "connections" -> ReturnResult(res)

Goto(next) ==
    /\ pc' = next.pc
    /\ i' = next.i
    /\ result' = next.result
    /\ awaiting' = FALSE

----------------------------------------------------------------------------
(* The remote calls *)

\* an entry of calls: the operation, the definition index it is made for, its
\* arguments, and its outcome with the fields of the response buildFlow reads
Call(op, idx) ==
    [op |-> op, idx |-> idx, groupId |-> "", id |-> "", revision |-> 0,
     type |-> << >>, x |-> 0, y |-> 0, props |-> << >>, rels |-> << >>,
     sourceId |-> "", destId |-> "",
     outcome |-> "pending", respId |-> "", respRevision |-> 0, respStatus |-> ""]

\* the call buildFlow makes at the await it has reached
CurrentCall ==
    CASE pc = "resolve" ->
            Call("getRootProcessGroupId", -1)
      [] pc = "svcCreate" ->
            [Call("createControllerService", i) EXCEPT
                !.groupId = rootGroupId,
                !.type = ResolveServiceType(definition.controller_services[i + 1].type),
                !.props = definition.controller_services[i + 1].properties]
      [] pc = "svcEnable" ->
            [Call("enableControllerService", i) EXCEPT
                !.id = MapGet(serviceIdMap, i),
                !.revision = version]
      [] pc = "topology" ->
            [Call("getProcessGroupFlow", -1) EXCEPT !.groupId = rootGroupId]
      [] pc = "procCreate" ->
            [Call("createProcessor", i) EXCEPT
                !.groupId = rootGroupId,
                !.type = ResolveProcessorType(definition.processors[i + 1].type),
                !.x = Position(startX, i).x,
                !.y = Position(startX, i).y]
      [] pc = "procProps" ->
            [Call("updateProcessorProperties", i) EXCEPT
                !.id = MapGet(processorIdMap, i),
                !.props = properties,
                !.revision = MapGet(processorVersionMap, i)]
      [] pc = "procAuto" ->
            [Call("updateProcessorAutoTerminate", i) EXCEPT
                !.id = MapGet(processorIdMap, i),
                !.rels = definition.processors[i + 1].auto_terminate,
                !.revision = MapGet(processorVersionMap, i)]
      [] pc = "connCreate" ->
            [Call("createConnection", i) EXCEPT
                !.groupId = rootGroupId,
                !.sourceId = MapGet(processorIdMap, definition.connections[i + 1].from_index),
                !.destId = MapGet(processorIdMap, definition.connections[i + 1].to_index),
                !.rels = definition.connections[i + 1].relationships]

\* fault: the call goes out without waiting for the one before it
IssueCallWithoutWaiting ==
    /\ pc \in CallSites
    /\ awaiting' = TRUE
    /\ calls' = Append(calls, CurrentCall)
    /\ UNCHANGED <<definition, given, pc, i, rootGroupId, result, serviceIdMap,
                   processorIdMap, processorVersionMap, version, startX,
                   properties, remoteClock, environment>>

\* buildFlow reaches an await: the call goes out and buildFlow is suspended
IssueCall ==
    /\ pc \in CallSites
    /\ ~awaiting
    /\ awaiting' = TRUE
    /\ calls' = Append(calls, CurrentCall)
    /\ UNCHANGED <<definition, given, pc, i, rootGroupId, result, serviceIdMap,
                   processorIdMap, processorVersionMap, version, startX,
                   properties, remoteClock, environment>>

\* the position in calls of the call buildFlow is suspended on
Awaited == Len(calls)

\* the call fails: the remote engine is unchanged and the await throws
Throws ==
    /\ calls' = [calls EXCEPT ![Awaited].outcome = "failed"]
    /\ UNCHANGED remoteClock

\* the remote engine accepts a change: the object it made or changed has the
\* number of the change as its revision, a new object is named after it
Accepts(newObject) ==
    /\ remoteClock' = remoteClock + 1
    /\ calls' = [calls EXCEPT
                    ![Awaited].outcome = "ok",
                    ![Awaited].respId = IF newObject THEN RemoteId(remoteClock + 1)
                                        ELSE calls[Awaited].id,
                    ![Awaited].respRevision = remoteClock + 1,
                    ![Awaited].respStatus =
                        IF calls[Awaited].op = "updateProcessorProperties"
                        THEN remoteStatus ELSE ""]

\* what the await returns
Response == calls'[Awaited]

----------------------------------------------------------------------------
(* Phase 1: target group (client.ts 277-280) *)

ResolveOk ==
    /\ pc = "resolve" /\ awaiting
    /\ calls' = [calls EXCEPT ![Awaited].outcome = "ok", ![Awaited].respId = RootGroupId]
    /\ rootGroupId' = Response.respId
    /\ Goto(AfterPhase("resolve", definition,
                       [result EXCEPT !.processGroupId = Response.respId],
                       processorIdMap))
    /\ UNCHANGED <<definition, given, serviceIdMap, processorIdMap, processorVersionMap,
                   version, startX, properties, remoteClock, environment>>

\* fault: a failed resolution is recorded and the run goes on
ResolveFailContinues ==
    /\ pc = "resolve" /\ awaiting
    /\ Throws
    /\ Goto(AfterPhase("resolve", definition,
              PushError(result, ErrorString("Flow build failed", -1, << >>, Awaited)),
              processorIdMap))
    /\ UNCHANGED <<definition, given, rootGroupId, serviceIdMap, processorIdMap,
                   processorVersionMap, version, startX, properties, environment>>

ResolveFail ==
    /\ pc = "resolve" /\ awaiting
    /\ Throws
    /\ Goto(TopLevelCatch(result, Awaited))
    /\ UNCHANGED <<definition, given, rootGroupId, serviceIdMap, processorIdMap,
                   processorVersionMap, version, startX, properties, environment>>

----------------------------------------------------------------------------
(* Phase 2: controller services (client.ts 283-316) *)

SvcCreateOk ==
    /\ pc = "svcCreate" /\ awaiting
    /\ Accepts(TRUE)
    /\ serviceIdMap' = MapPut(serviceIdMap, i, Response.respId)
    /\ version' = Response.respRevision
    /\ pc' = "svcEnable"
    /\ awaiting' = FALSE
    /\ result' = [result EXCEPT !.controllerServiceIds = Append(@, Response.respId)]
    /\ UNCHANGED <<definition, given, i, rootGroupId, processorIdMap,
                   processorVersionMap, startX, properties, environment>>

SvcCreateFail ==
    /\ pc = "svcCreate" /\ awaiting
    /\ Throws
    /\ Goto(ServiceCatch(definition, i, result, processorIdMap, Awaited))
    /\ UNCHANGED <<definition, given, rootGroupId, serviceIdMap, processorIdMap,
                   processorVersionMap, version, startX, properties, environment>>

SvcEnableOk ==
    /\ pc = "svcEnable" /\ awaiting
    /\ Accepts(FALSE)
    /\ Goto(EnterService(definition, i + 1, result, processorIdMap))
    /\ UNCHANGED <<definition, given, rootGroupId, serviceIdMap, processorIdMap,
                   processorVersionMap, version, startX, properties, environment>>

\* fault: a service that could not be enabled is taken out of the result and
\* of the identifier map
SvcEnableFailForgetsService ==
    /\ pc = "svcEnable" /\ awaiting
    /\ Throws
    /\ serviceIdMap' = MapPut(serviceIdMap, i, Undefined)
    /\ Goto(ServiceCatch(definition, i,
              [result EXCEPT !.controllerServiceIds =
                                 SubSeq(@, 1, Len(@) - 1)],
              processorIdMap, Awaited))
    /\ UNCHANGED <<definition, given, rootGroupId, processorIdMap,
                   processorVersionMap, version, startX, properties, environment>>

SvcEnableFail ==
    /\ pc = "svcEnable" /\ awaiting
    /\ Throws
    /\ Goto(ServiceCatch(definition, i, result, processorIdMap, Awaited))
    /\ UNCHANGED <<definition, given, rootGroupId, serviceIdMap, processorIdMap,
                   processorVersionMap, version, startX, properties, environment>>

----------------------------------------------------------------------------
(* Phase 3: layout (client.ts 318-335) *)

TopologyOk ==
    /\ pc = "topology" /\ awaiting
    /\ calls' = [calls EXCEPT ![Awaited].outcome = "ok"]
    /\ startX' = ComputeStartX(existingProcessors)
    /\ Goto(AfterPhase("topology", definition, result, processorIdMap))
    /\ UNCHANGED <<definition, given, rootGroupId, serviceIdMap, processorIdMap,
                   processorVersionMap, version, properties, remoteClock, environment>>

TopologyFail ==
    /\ pc = "topology" /\ awaiting
    /\ Throws
    /\ Goto(TopLevelCatch(result, Awaited))
    /\ UNCHANGED <<definition, given, rootGroupId, serviceIdMap, processorIdMap,
                   processorVersionMap, version, startX, properties, environment>>

----------------------------------------------------------------------------
(* Phase 4: processors (client.ts 337-463) *)

\* fault: the property update is issued for an empty map as well
ProcCreateOkAlwaysUpdates ==
    /\ pc = "procCreate" /\ awaiting
    /\ Accepts(TRUE)
    /\ processorIdMap' = MapPut(processorIdMap, i, Response.respId)
    /\ processorVersionMap' = MapPut(processorVersionMap, i, Response.respRevision)
    /\ properties' = FinalProperties(definition, i, serviceIdMap)
    /\ definition' = InferAutoTerminate(definition, i)
    /\ Goto([pc |-> "procProps", i |-> i,
             result |-> [result EXCEPT !.processorIds = Append(@, Response.respId)]])
    /\ UNCHANGED <<given, rootGroupId, serviceIdMap, version, startX, environment>>

ProcCreateOk ==
    /\ pc = "procCreate" /\ awaiting
    /\ Accepts(TRUE)
    /\ LET idMap == MapPut(processorIdMap, i, Response.respId)
           props == FinalProperties(definition, i, serviceIdMap)
           def == InferAutoTerminate(definition, i)
           res == [result EXCEPT !.processorIds = Append(@, Response.respId)]
       IN  /\ processorIdMap' = idMap
           /\ processorVersionMap' = MapPut(processorVersionMap, i, Response.respRevision)
           /\ properties' = props
           /\ definition' = def
           /\ IF Len(props) > 0
              THEN Goto([pc |-> "procProps", i |-> i, result |-> res])
              ELSE Goto(AfterProperties(def, i, res, idMap))
    /\ UNCHANGED <<given, rootGroupId, serviceIdMap, version, startX, environment>>

ProcCreateFail ==
    /\ pc = "procCreate" /\ awaiting
    /\ Throws
    /\ Goto(ProcessorCatch(definition, i, result, processorIdMap, Awaited))
    /\ UNCHANGED <<definition, given, rootGroupId, serviceIdMap, processorIdMap,
                   processorVersionMap, version, startX, properties, environment>>

\* fault: the revision of the property update's response is dropped
ProcPropsOkStaleRevision ==
    /\ pc = "procProps" /\ awaiting
    /\ Accepts(FALSE)
    /\ Goto(AfterProperties(definition, i, result, processorIdMap))
    /\ UNCHANGED <<definition, given, rootGroupId, serviceIdMap, processorIdMap,
                   processorVersionMap, version, startX, properties, environment>>

\* fault: a status other than VALID is recorded as an error
ProcPropsOkInvalidIsError ==
    /\ pc = "procProps" /\ awaiting
    /\ Accepts(FALSE)
    /\ processorVersionMap' = MapPut(processorVersionMap, i, Response.respRevision)
    /\ Goto(AfterProperties(definition, i,
              IF Response.respStatus = "VALID" THEN result
              ELSE PushError(result, ErrorString("Failed to configure", i,
                                                 <<definition.processors[i + 1].name>>,
                                                 Awaited)),
              processorIdMap))
    /\ UNCHANGED <<definition, given, rootGroupId, serviceIdMap, processorIdMap,
                   version, startX, properties, environment>>

\* a status other than VALID is only logged
ProcPropsOk ==
    /\ pc = "procProps" /\ awaiting
    /\ Accepts(FALSE)
    /\ processorVersionMap' = MapPut(processorVersionMap, i, Response.respRevision)
    /\ Goto(AfterProperties(definition, i, result, processorIdMap))
    /\ UNCHANGED <<definition, given, rootGroupId, serviceIdMap, processorIdMap,
                   version, startX, properties, environment>>

\* the catch around the property update
ProcPropsFail ==
    /\ pc = "procProps" /\ awaiting
    /\ Throws
    /\ Goto(AfterProperties(definition, i,
              PushError(result, ErrorString("Failed to configure", i,
                                            <<definition.processors[i + 1].name>>,
                                            Awaited)),
              processorIdMap))
    /\ UNCHANGED <<definition, given, rootGroupId, serviceIdMap, processorIdMap,
                   processorVersionMap, version, startX, properties, environment>>

ProcAutoOk ==
    /\ pc = "procAuto" /\ awaiting
    /\ Accepts(FALSE)
    /\ processorVersionMap' = MapPut(processorVersionMap, i, Response.respRevision)
    /\ Goto(EnterProcessor(definition, i + 1, result, processorIdMap))
    /\ UNCHANGED <<definition, given, rootGroupId, serviceIdMap, processorIdMap,
                   version, startX, properties, environment>>

\* fault: a processor whose auto-terminate update failed is forgotten
ProcAutoFailForgetsProcessor ==
    /\ pc = "procAuto" /\ awaiting
    /\ Throws
    /\ processorIdMap' = [n \in (DOMAIN processorIdMap) \ {i} |-> processorIdMap[n]]
    /\ Goto(ProcessorCatch(definition, i,
              [result EXCEPT !.processorIds = SubSeq(@, 1, Len(@) - 1)],
              processorIdMap', Awaited))
    /\ UNCHANGED <<definition, given, rootGroupId, serviceIdMap,
                   processorVersionMap, version, startX, properties, environment>>

\* the auto-terminate update has no catch of its own
ProcAutoFail ==
    /\ pc = "procAuto" /\ awaiting
    /\ Throws
    /\ Goto(ProcessorCatch(definition, i, result, processorIdMap, Awaited))
    /\ UNCHANGED <<definition, given, rootGroupId, serviceIdMap, processorIdMap,
                   processorVersionMap, version, startX, properties, environment>>

----------------------------------------------------------------------------
(* Phase 5: connections (client.ts 465-495) and the return (497-498) *)

\* fault: the identifier of a new connection is put in front of the list
ConnCreateOkPrepends ==
    /\ pc = "connCreate" /\ awaiting
    /\ Accepts(TRUE)
    /\ Goto(EnterConnection(definition, i + 1,
              [result EXCEPT !.connectionIds = <<Response.respId>> \o @],
              processorIdMap))
    /\ UNCHANGED <<definition, given, rootGroupId, serviceIdMap, processorIdMap,
                   processorVersionMap, version, startX, properties, environment>>

ConnCreateOk ==
    /\ pc = "connCreate" /\ awaiting
    /\ Accepts(TRUE)
    /\ Goto(EnterConnection(definition, i + 1,
              [result EXCEPT !.connectionIds = Append(@, Response.respId)],
              processorIdMap))
    /\ UNCHANGED <<definition, given, rootGroupId, serviceIdMap, processorIdMap,
                   processorVersionMap, version, startX, properties, environment>>

\* fault: a failed connection is dropped without an error
ConnCreateFailSwallowed ==
    /\ pc = "connCreate" /\ awaiting
    /\ Throws
    /\ Goto(EnterConnection(definition, i + 1, result, processorIdMap))
    /\ UNCHANGED <<definition, given, rootGroupId, serviceIdMap, processorIdMap,
                   processorVersionMap, version, startX, properties, environment>>

ConnCreateFail ==
    /\ pc = "connCreate" /\ awaiting
    /\ Throws
    /\ Goto(EnterConnection(definition, i + 1,
              PushError(result,
                  ErrorString("Failed to connect", i,
                      <<definition.processors[definition.connections[i + 1].from_index + 1].name,
                        definition.processors[definition.connections[i + 1].to_index + 1].name>>,
                      Awaited)),
              processorIdMap))
    /\ UNCHANGED <<definition, given, rootGroupId, serviceIdMap, processorIdMap,
                   processorVersionMap, version, startX, properties, environment>>

----------------------------------------------------------------------------

Next ==
    \/ IssueCall
    \/ ResolveOk \/ ResolveFail
    \/ SvcCreateOk \/ SvcCreateFail
    \/ SvcEnableOk \/ SvcEnableFail
    \/ TopologyOk \/ TopologyFail
    \/ ProcCreateOk \/ ProcCreateFail
    \/ ProcPropsOk \/ ProcPropsFail
    \/ ProcAutoOk \/ ProcAutoFail
    \/ ConnCreateOk \/ ConnCreateFail

Spec == Init /\ [][Next]_vars

----------------------------------------------------------------------------
(* Reading the call log and the result *)

CallNumbers == 1..Len(calls)

Failed(n) == calls[n].outcome = "failed"

Succeeded(n) == calls[n].outcome = "ok"

\* the calls of an operation made for a definition index
CallsFor(op, idx) == {n \in CallNumbers : calls[n].op = op /\ calls[n].idx = idx}

ErrorNumbers == 1..Len(result.errors)

\* the entries of result.errors that quote a name
ErrorsNaming(name) == {e \in ErrorNumbers : ArrIncludes(result.errors[e].names, name)}

\* the entries of result.errors with a wording
ErrorsOfKind(kind) == {e \in ErrorNumbers : result.errors[e].kind = kind}

Returned == pc = "returned"

NumProcessors == Len(given.processors)

NumConnections == Len(given.connections)

\* the run ended in the outer catch
Aborted == Returned /\ ErrorsOfKind("Flow build failed") # {}

ServiceOps == {"createControllerService", "enableControllerService"}

ProcessorOps == {"createProcessor", "updateProcessorProperties",
                 "updateProcessorAutoTerminate"}

----------------------------------------------------------------------------
(* C1 *)

\* the steps a run has taken: two for every answered call, one for the call
\* that is out
Progress == 2 * Len(calls) - (IF awaiting THEN 1 ELSE 0)

\* the most calls the definition can ask for
MaxCalls == 2 + 2 * NumServices(given) + 3 * Len(given.processors) + Len(given.connections)

\* buildFlow can take a step: issue the call it has reached, or get the
\* failure of the call it awaits
CanStep ==
    ENABLED (\/ IssueCall
             \/ ResolveFail \/ SvcCreateFail \/ SvcEnableFail \/ TopologyFail
             \/ ProcCreateFail \/ ProcPropsFail \/ ProcAutoFail \/ ConnCreateFail)

\* C1: whatever the definition and whichever remote calls fail, buildFlow
\* ends by returning its result and no exception leaves it: a run that has
\* not returned can always take a step, every step is one of the at most
\* 2 * MaxCalls issues and answers of a call, and the run never ends by
\* throwing; and every failed remote call has an entry in errors that quotes
\* its exception.
C1_ReturnsAndRecordsEveryFailure ==
    /\ [](~Returned => CanStep)
    /\ [][Progress' = Progress + 1]_vars
    /\ [](Progress <= 2 * MaxCalls)
    /\ [](pc # "threw")
    /\ [](\A n \in CallNumbers :
            Failed(n) => \E e \in ErrorNumbers : result.errors[e].msg = n)

\* a run that returned after failures of three kinds, the last one caught by
\* the outer catch
C1_Witness ==
    /\ Returned
    /\ \E a, b, c \in CallNumbers :
          /\ Failed(a) /\ calls[a].op = "createControllerService"
          /\ Failed(b) /\ calls[b].op = "enableControllerService"
          /\ Failed(c) /\ calls[c].op = "getProcessGroupFlow"

----------------------------------------------------------------------------
(* C2 *)

\* C2: whenever buildFlow has returned, success is true exactly when errors
\* is empty, on the normal return and on the return from the outer catch.
C2_SuccessIffNoErrors ==
    Returned => (result.success <=> Len(result.errors) = 0)

\* a return from the outer catch after a service was created
C2_Witness ==
    /\ Aborted
    /\ Len(result.controllerServiceIds) > 0
    /\ ~result.success

----------------------------------------------------------------------------
(* C3 *)

\* every from_index and to_index of the definition is the index of a processor
AllIndicesExist ==
    \A k \in 1..NumConnections :
        /\ given.connections[k].from_index \in 0..(NumProcessors - 1)
        /\ given.connections[k].to_index \in 0..(NumProcessors - 1)

\* C3: for a definition of N processors and M connections whose indices all
\* exist, a run in which no remote call fails returns success with no
\* error, and every run that returns success returns N processor
\* identifiers and M connection identifiers.
C3_CompleteOnSuccess ==
    (Returned /\ AllIndicesExist) =>
        /\ (\A n \in CallNumbers : ~Failed(n)) =>
                (result.success /\ result.errors = << >>)
        /\ result.success =>
                /\ Len(result.processorIds) = NumProcessors
                /\ Len(result.connectionIds) = NumConnections

\* a successful run of two services, two processors and two connections
C3_Witness ==
    /\ Returned /\ result.success
    /\ NumServices(given) = 2 /\ NumProcessors = 2 /\ NumConnections = 2
    /\ Len(result.processorIds) = 2 /\ Len(result.connectionIds) = 2

----------------------------------------------------------------------------
(* C4 *)

\* processor j of the definition was created
Created(j) == \E n \in CallsFor("createProcessor", j) : Succeeded(n)

\* connection k (0-based) has an endpoint without a created processor
MissingEndpoint(k) ==
    \/ ~Created(given.connections[k + 1].from_index)
    \/ ~Created(given.connections[k + 1].to_index)

\* the errors written for connection k because an endpoint is missing
DanglingErrors(k) ==
    {e \in ErrorsOfKind("Cannot create connection") : result.errors[e].idx = k}

ConnectionNumbers == 0..(NumConnections - 1)

\* a createConnection call is only made between two created processors
NoCallForDangling ==
    \A n \in CallNumbers :
        calls[n].op = "createConnection" =>
            \A end \in {given.connections[calls[n].idx + 1].from_index,
                        given.connections[calls[n].idx + 1].to_index} :
                \E m \in 1..(n - 1) :
                    /\ calls[m].op = "createProcessor" /\ calls[m].idx = end
                    /\ Succeeded(m)

\* C4 as claimed: in every run, a connection with a missing endpoint gets no
\* createConnection call and exactly one error, and the other connections
\* are still processed.
C4_Original ==
    /\ NoCallForDangling
    /\ Returned =>
          \A k \in ConnectionNumbers :
              IF MissingEndpoint(k)
              THEN Cardinality(DanglingErrors(k)) = 1
              ELSE Cardinality(CallsFor("createConnection", k)) = 1

\* C4, amended: a connection with a missing endpoint never gets a
\* createConnection call; in a run that reaches the connection phase it gets
\* exactly one error (also when both endpoints are missing) and every other
\* connection gets its createConnection call; in a run that the outer catch
\* ended before that phase no connection gets an error or a call.
C4_DanglingConnectionSkipped ==
    /\ NoCallForDangling
    /\ (Returned /\ ~Aborted) =>
          \A k \in ConnectionNumbers :
              IF MissingEndpoint(k)
              THEN Cardinality(DanglingErrors(k)) = 1
              ELSE Cardinality(CallsFor("createConnection", k)) = 1
    /\ Aborted =>
          \A k \in ConnectionNumbers :
              DanglingErrors(k) = {} /\ CallsFor("createConnection", k) = {}

\* the first connection points past the processor list and has its one error,
\* the second one was still made
C4_Witness ==
    /\ Returned /\ ~Aborted
    /\ NumProcessors = 2 /\ NumConnections = 2
    /\ given.connections[1].to_index = 2
    /\ Cardinality(DanglingErrors(0)) = 1
    /\ \E n \in CallsFor("createConnection", 1) : Succeeded(n)

----------------------------------------------------------------------------
(* C5 *)

\* the successful calls before call n that returned the object call n is about
EarlierOn(n) == {m \in 1..(n - 1) : Succeeded(m) /\ calls[m].respId = calls[n].id}

Latest(S) == CHOOSE m \in S : \A o \in S : o <= m

\* C5: every property update and auto-terminate update carries the revision
\* returned by the latest successful call on the same processor, and every
\* enable carries the revision returned by the create of the same service.
C5_RevisionThreaded ==
    \A n \in CallNumbers :
        /\ calls[n].op \in {"updateProcessorProperties", "updateProcessorAutoTerminate"} =>
              /\ EarlierOn(n) # {}
              /\ calls[n].revision = calls[Latest(EarlierOn(n))].respRevision
        /\ calls[n].op = "enableControllerService" =>
              \E m \in EarlierOn(n) :
                  /\ calls[m].op = "createControllerService"
                  /\ calls[n].revision = calls[m].respRevision

\* an auto-terminate update sent after the property update of the same
\* processor failed, and one sent after it succeeded
C5_Witness ==
    /\ \E a, b, c \in CallNumbers :
          /\ a < b /\ b < c
          /\ calls[a].op = "createProcessor" /\ Succeeded(a)
          /\ calls[b].op = "updateProcessorProperties" /\ Failed(b)
          /\ calls[c].op = "updateProcessorAutoTerminate"
          /\ calls[b].idx = calls[a].idx /\ calls[c].idx = calls[a].idx
          /\ calls[c].revision = calls[a].respRevision
    /\ \E b, c \in CallNumbers :
          /\ b < c
          /\ calls[b].op = "updateProcessorProperties" /\ Succeeded(b)
          /\ calls[c].op = "updateProcessorAutoTerminate"
          /\ calls[c].idx = calls[b].idx
          /\ calls[c].revision = calls[b].respRevision

----------------------------------------------------------------------------
(* C6 *)

\* the phase a remote call belongs to
PhaseOf(op) ==
    CASE op = "getRootProcessGroupId" -> 1
      [] op \in ServiceOps -> 2
      [] op = "getProcessGroupFlow" -> 3
      [] op \in ProcessorOps -> 4
      [] op = "createConnection" -> 5

\* C6: the calls go out in phase order: the first call is the target-group
\* resolution and it is made once, no call of an earlier phase follows a call
\* of a later phase, a call is only made after the call before it was
\* answered, and every processor or connection call comes after the topology
\* read has succeeded.
C6_PhaseOrder ==
    /\ calls # << >> => calls[1].op = "getRootProcessGroupId"
    /\ \A m, n \in CallNumbers :
          m < n =>
              /\ PhaseOf(calls[m].op) <= PhaseOf(calls[n].op)
              /\ calls[n].op # "getRootProcessGroupId"
              /\ calls[n].op # "getProcessGroupFlow" \/ calls[m].op # "getProcessGroupFlow"
              /\ calls[m].outcome # "pending"
    /\ \A n \in CallNumbers :
          PhaseOf(calls[n].op) > 3 =>
              \E m \in 1..(n - 1) : calls[m].op = "getProcessGroupFlow" /\ Succeeded(m)

\* a run that made calls of all five phases, every operation among them
C6_Witness ==
    /\ Returned
    /\ \A op \in {"getRootProcessGroupId", "getProcessGroupFlow", "createConnection"}
                 \cup ServiceOps \cup ProcessorOps :
          \E n \in CallNumbers : calls[n].op = op

----------------------------------------------------------------------------
(* C7 *)

\* connection k was processed: created, tried, or reported as dangling
Processed(k) == CallsFor("createConnection", k) # {} \/ DanglingErrors(k) # {}

\* C7 as claimed: once the target group is resolved, no failure aborts the
\* run: every processor of the definition is attempted and every connection
\* is processed.
C7_Original ==
    (Returned /\ Succeeded(1)) =>
        /\ \A j \in 0..(NumProcessors - 1) : CallsFor("createProcessor", j) # {}
        /\ \A k \in ConnectionNumbers : Processed(k)

----------------------------------------------------------------------------
(* C8 *)

\* C8: when the target-group resolution fails, it stays the only remote call,
\* and buildFlow returns success = false, an empty processGroupId, no
\* processor, connection or service identifier, and exactly one error.
C8_ResolutionFailureIsFatal ==
    (\E n \in CallNumbers : calls[n].op = "getRootProcessGroupId" /\ Failed(n)) =>
        /\ Len(calls) = 1
        /\ Returned
        /\ result.success = FALSE
        /\ result.processGroupId = ""
        /\ result.processorIds = << >>
        /\ result.connectionIds = << >>
        /\ result.controllerServiceIds = << >>
        /\ Len(result.errors) = 1

\* the resolution failed for a definition with services, processors and
\* connections
C8_Witness ==
    /\ calls # << >> /\ Failed(1)
    /\ NumServices(given) = 2 /\ NumProcessors = 2 /\ NumConnections = 2
    /\ Returned /\ Len(result.errors) = 1

----------------------------------------------------------------------------
(* C9 *)

\* the creation of processor j failed
CreateFailed(j) == \E n \in CallsFor("createProcessor", j) : Failed(n)

\* the identifiers the successful createProcessor calls returned, in call order
RECURSIVE CreatedIds(_)
CreatedIds(n) ==
    IF n = 0 THEN << >>
    ELSE IF calls[n].op = "createProcessor" /\ Succeeded(n)
         THEN Append(CreatedIds(n - 1), calls[n].respId)
         ELSE CreatedIds(n - 1)

\* the run of the scenario: processors A and B, one connection A to B, and the
\* creation of B is the one call that failed
ScenarioBFails ==
    /\ Returned
    /\ NumProcessors = 2
    /\ given.connections = <<ConnSpec(0, 1)>>
    /\ \A n \in CallNumbers :
          Failed(n) <=> (calls[n].op = "createProcessor" /\ calls[n].idx = 1)
    /\ CreateFailed(1)

\* C9: when the creation of processor j fails, one error names the processor
\* and it is the creation error, no property or auto-terminate update is made
\* for j, processorIds has no identifier for j, createProcessor is made for
\* every later index, and processorIds holds the identifiers of exactly the
\* processors that were created; in the scenario the result holds A's
\* identifier and the two errors, the creation error of B and the
\* dangling-reference error of the connection.
C9_CreateFailureSkipsProcessor ==
    /\ \A j \in 0..(NumProcessors - 1) :
          CreateFailed(j) =>
              /\ CallsFor("updateProcessorProperties", j) = {}
              /\ CallsFor("updateProcessorAutoTerminate", j) = {}
              /\ ~Created(j)
              /\ Returned =>
                    /\ Cardinality(ErrorsNaming(given.processors[j + 1].name)) = 1
                    /\ \A e \in ErrorsNaming(given.processors[j + 1].name) :
                          /\ result.errors[e].kind = "Failed to create processor"
                          /\ result.errors[e].idx = j
                    /\ \A l \in (j + 1)..(NumProcessors - 1) :
                          CallsFor("createProcessor", l) # {}
    /\ result.processorIds = CreatedIds(Len(calls))
    /\ ScenarioBFails =>
          /\ \E n \in CallsFor("createProcessor", 0) :
                result.processorIds = <<calls[n].respId>>
          /\ Len(result.errors) = 2
          /\ result.errors[1].kind = "Failed to create processor"
          /\ result.errors[1].idx = 1
          /\ result.errors[2].kind = "Cannot create connection"
          /\ result.errors[2].idx = 0

\* the scenario has run
C9_Witness ==
    /\ ScenarioBFails
    /\ Len(result.processorIds) = 1
    /\ Len(result.errors) = 2

----------------------------------------------------------------------------
(* C10 *)

\* C10 as claimed: after a failed service create or enable the error is
\* recorded, create is attempted for every later service, and the layout,
\* processor and connection phases run.
C10_Original ==
    \A n \in CallNumbers :
        (calls[n].op \in ServiceOps /\ Failed(n)) =>
            /\ \E e \in ErrorNumbers :
                  /\ result.errors[e].msg = n
                  /\ result.errors[e].kind = "Failed to create controller service"
            /\ Returned =>
                  /\ \A s \in (calls[n].idx + 1)..(NumServices(given) - 1) :
                        CallsFor("createControllerService", s) # {}
                  /\ \E m \in CallNumbers : calls[m].op = "getProcessGroupFlow"
                  /\ \A j \in 0..(NumProcessors - 1) : CallsFor("createProcessor", j) # {}
                  /\ \A k \in ConnectionNumbers : Processed(k)

----------------------------------------------------------------------------
(* C11 *)

ConfigOps == {"updateProcessorProperties", "updateProcessorAutoTerminate"}

\* the operations of NiFiClient that buildFlow uses
BuildOps ==
    {"getRootProcessGroupId", "getProcessGroupFlow", "createConnection"}
    \cup ServiceOps \cup ProcessorOps

\* connection k was asked for between the identifiers of its two processors
ConnectedAsCreated(k) ==
    \E c \in CallsFor("createConnection", k) :
        /\ \E a \in CallsFor("createProcessor", given.connections[k + 1].from_index) :
              Succeeded(a) /\ calls[c].sourceId = calls[a].respId
        /\ \E b \in CallsFor("createProcessor", given.connections[k + 1].to_index) :
              Succeeded(b) /\ calls[c].destId = calls[b].respId

\* C11: when the property update or the auto-terminate update of a created
\* processor fails, its identifier stays in processorIds and an error naming
\* it quotes the failure; no later call undoes or repeats the step (the only
\* later call on the processor is the auto-terminate update that follows a
\* property update anyway, and no call is of an operation outside the
\* builder's eight); and at the return every connection between created
\* processors, those of the failed processor included, was asked for.
C11_ConfigFailureKeepsProcessor ==
    \A n \in CallNumbers :
        (calls[n].op \in ConfigOps /\ Failed(n)) =>
            /\ ArrIncludes(result.processorIds, calls[n].id)
            /\ \E e \in ErrorNumbers :
                  /\ result.errors[e].msg = n
                  /\ ArrIncludes(result.errors[e].names,
                                 given.processors[calls[n].idx + 1].name)
            /\ \A m \in (n + 1)..Len(calls) :
                  /\ calls[m].op \in BuildOps
                  /\ calls[m].id = calls[n].id =>
                        /\ calls[n].op = "updateProcessorProperties"
                        /\ calls[m].op = "updateProcessorAutoTerminate"
            /\ Returned =>
                  \A k \in ConnectionNumbers :
                      ~MissingEndpoint(k) => ConnectedAsCreated(k)

\* the property update of the first processor and the auto-terminate update
\* of the second failed, and the connection between the two was made
C11_Witness ==
    /\ Returned
    /\ \E n \in CallsFor("updateProcessorProperties", 0) : Failed(n)
    /\ \E n \in CallsFor("updateProcessorAutoTerminate", 1) : Failed(n)
    /\ given.connections # << >>
    /\ given.connections[1] = ConnSpec(0, 1)
    /\ \E c \in CallsFor("createConnection", 0) : Succeeded(c)
    /\ ConnectedAsCreated(0)
    /\ Len(result.processorIds) = 2

----------------------------------------------------------------------------
(* C12 *)

\* C12 as claimed: the definition object is after the run what it was when
\* buildFlow was called.
C12_Original == Returned => definition = given

----------------------------------------------------------------------------
(* C14 *)

\* the identifiers of the services created before call n
ServiceIdsBefore(n) ==
    {calls[m].respId : m \in {m \in 1..(n - 1) :
        calls[m].op = "createControllerService" /\ Succeeded(m)}}

\* the referenced_by entries of the definition
ReferencedByEntries ==
    UNION {IF HasReferencedBy(given.controller_services[s])
           THEN {given.controller_services[s].referenced_by[r] :
                    r \in 1..Len(given.controller_services[s].referenced_by)}
           ELSE {} : s \in 1..NumServices(given)}

\* the property names the referenced_by entries name for processor j
ReferencedKeys(j) ==
    {ref.property_name : ref \in {r \in ReferencedByEntries : r.processor_index = j}}

\* C14 as claimed: the value pushed for a property that a referenced_by entry
\* names is always the identifier of a service created earlier in the run.
C14_Original ==
    \A n \in CallNumbers :
        calls[n].op = "updateProcessorProperties" =>
            \A key \in ReferencedKeys(calls[n].idx) :
                ObjGet(calls[n].props, key) \in ServiceIdsBefore(n)

----------------------------------------------------------------------------
(* C16 *)

\* some connection of the definition leaves processor j
HasOutgoing(j) == \E k \in 1..NumConnections : given.connections[k].from_index = j

\* processor j is of a type that the sink inference looks at, and its spec
\* does not already list both relationships
InferenceVisible(j) ==
    /\ StrIncludes(ResolveProcessorType(given.processors[j + 1].type), "PublishMQTT")
    /\ \/ ~HasAutoTerminate(given.processors[j + 1])
       \/ ~ArrIncludes(given.processors[j + 1].auto_terminate, "success")
       \/ ~ArrIncludes(given.processors[j + 1].auto_terminate, "failure")

\* buildFlow treated processor j as a sink: it gave it both relationships
TreatedAsSink(j) ==
    /\ HasAutoTerminate(definition.processors[j + 1])
    /\ ArrIncludes(definition.processors[j + 1].auto_terminate, "success")
    /\ ArrIncludes(definition.processors[j + 1].auto_terminate, "failure")

\* C16: a created processor is treated as a source exactly when some
\* connection of the definition has its index as from_index, whatever its
\* place in the processor list, whatever the to_index values, and whichever
\* processors and connections were made; without such a connection it is
\* treated as a sink.
C16_SourceByOutgoingConnection ==
    \A j \in 0..(NumProcessors - 1) :
        (Created(j) /\ InferenceVisible(j)) => (TreatedAsSink(j) <=> ~HasOutgoing(j))

\* two publishers and one connection, from the second to a processor that
\* does not exist: the first of the list is the sink, the last the source
C16_Witness ==
    /\ Returned
    /\ NumProcessors = 2
    /\ given.connections = <<ConnSpec(1, 2)>>
    /\ Created(0) /\ InferenceVisible(0) /\ TreatedAsSink(0)
    /\ Created(1) /\ InferenceVisible(1) /\ ~TreatedAsSink(1)

----------------------------------------------------------------------------
(* C19 *)

\* the calls that were issued and are not yet answered
Outstanding == {n \in CallNumbers : calls[n].outcome = "pending"}

\* C19: at most one remote call is outstanding, and it is the one issued
\* last: a call is only issued when every call before it has returned or
\* failed.
C19_OneOutstandingCall ==
    /\ Cardinality(Outstanding) <= 1
    /\ \A n \in Outstanding : n = Len(calls)
    /\ awaiting <=> Outstanding # {}

\* a connection create is outstanding after the calls for two services and
\* two processors were answered
C19_Witness ==
    /\ Outstanding = {Len(calls)}
    /\ calls[Len(calls)].op = "createConnection"
    /\ \E n \in CallsFor("enableControllerService", 1) : calls[n].outcome # "pending"
    /\ \E n \in CallsFor("createProcessor", 1) : calls[n].outcome # "pending"

----------------------------------------------------------------------------
(* C20 *)

\* C20: no remote call is issued twice for the same element of the
\* definition: one call at most of each operation for each service, processor
\* and connection (and one resolution and one topology read), so a call that
\* failed is not issued again.
C20_NoCallRepeated ==
    \A m, n \in CallNumbers :
        m < n => ~(calls[m].op = calls[n].op /\ calls[m].idx = calls[n].idx)

\* a run with a failed call of each kind of element, each made once
C20_Witness ==
    /\ Returned
    /\ \E n \in CallsFor("createControllerService", 0) : Failed(n)
    /\ \E n \in CallsFor("updateProcessorProperties", 0) : Failed(n)
    /\ \E n \in CallsFor("createProcessor", 1) : Succeeded(n)
    /\ \E n \in CallsFor("createConnection", 0) : Failed(n)
    /\ Cardinality(CallsFor("createControllerService", 0)) = 1
    /\ Cardinality(CallsFor("updateProcessorProperties", 0)) = 1
    /\ Cardinality(CallsFor("createConnection", 0)) = 1

----------------------------------------------------------------------------
(* Definitions that exercise the property and auto-terminate computations:  *)
(* explicit properties that collide with catalog defaults, auto-terminate   *)
(* lists that already hold a relationship, a type outside the catalog, and  *)
(* services whose references name keys that have other values               *)

RichKinds == {"pub", "pubListed", "pubBoth", "log", "rawPub"}

RichProcSpec(kind, n) ==
    CASE kind = "pub" ->
            [name |-> ProcName(n), type |-> <<"PublishMQTT">>,
             properties |-> << <<"Broker URI", "tcp://broker:1883">>,
                               <<"Quality of Service", "2">> >>]
      [] kind = "pubListed" ->
            [name |-> ProcName(n), type |-> <<"PublishMQTT">>,
             properties |-> << <<"Retain Message", "true">>, <<"Topic", "t">> >>,
             auto_terminate |-> <<"failure", "retry">>]
      [] kind = "pubBoth" ->
            [name |-> ProcName(n), type |-> <<"PublishMQTT">>,
             properties |-> << >>,
             auto_terminate |-> <<"success", "failure">>]
      [] kind = "log" ->
            [name |-> ProcName(n), type |-> <<"LogAttribute">>,
             properties |-> << <<"Log Payload", "true">>, <<"Log Level", "debug">> >>,
             auto_terminate |-> <<"success">>]
      [] kind = "rawPub" ->
            [name |-> ProcName(n), type |-> <<"com.acme.", "PublishMQTT", "Bridge">>,
             properties |-> << <<"Topic", "t">> >>]

RichSvcSpec(kind, n) ==
    CASE kind = "qos" ->
            [name |-> SvcName(n), type |-> <<"JsonTreeReader">>, properties |-> << >>,
             referenced_by |-> << [processor_index |-> 0,
                                   property_name |-> "Quality of Service"] >>]
      [] kind = "two" ->
            [name |-> SvcName(n), type |-> <<"DBCPConnectionPool">>,
             properties |-> << <<"Database Connection URL", "jdbc:db">> >>,
             referenced_by |-> << [processor_index |-> 1, property_name |-> "Log Level"],
                                  [processor_index |-> 0, property_name |-> "Retain Message"] >>]
      [] kind = "plain" ->
            [name |-> SvcName(n), type |-> <<"com.acme.", "CustomService">>,
             properties |-> << >>]

RichProcessorLists ==
    {[n \in 1..Len(kinds) |-> RichProcSpec(kinds[n], n - 1)] :
        kinds \in [1..1 -> RichKinds] \cup [1..2 -> RichKinds]}

RichServiceLists ==
    {[n \in 1..Len(kinds) |-> RichSvcSpec(kinds[n], n - 1)] :
        kinds \in {<<"qos">>, <<"qos", "qos">>, <<"plain", "two">>, <<"two", "qos">>}}

RichConnectionLists == {<< >>, <<ConnSpec(0, 1)>>, <<ConnSpec(1, 0)>>}

RichDefinitions ==
    {[processors |-> ps, connections |-> cs, controller_services |-> ss] :
        ps \in RichProcessorLists, cs \in RichConnectionLists, ss \in RichServiceLists}
    \cup
    {[processors |-> ps, connections |-> cs] :
        ps \in RichProcessorLists, cs \in RichConnectionLists}

PropsInit == InitWith(RichDefinitions, {BusyGroup}, {"VALID"})

PropsSpec == PropsInit /\ [][Next]_vars

----------------------------------------------------------------------------
(* C13 *)

\* service s of the definition has a referenced_by entry for property key of
\* processor j
RefersTo(s, j, key) ==
    /\ HasReferencedBy(given.controller_services[s + 1])
    /\ \E r \in 1..Len(given.controller_services[s + 1].referenced_by) :
          /\ given.controller_services[s + 1].referenced_by[r].processor_index = j
          /\ given.controller_services[s + 1].referenced_by[r].property_name = key

ServiceNumbers == 0..(NumServices(given) - 1)

\* the last service of the definition that refers to the property
LastReferrer(j, key) ==
    CHOOSE s \in ServiceNumbers :
        /\ RefersTo(s, j, key)
        /\ \A t \in ServiceNumbers : RefersTo(t, j, key) => t <= s

ServiceCreated(s) == \E n \in CallsFor("createControllerService", s) : Succeeded(n)

\* the identifier service s was created with
RealizedServiceId(s) ==
    calls[CHOOSE n \in CallsFor("createControllerService", s) : Succeeded(n)].respId

\* C13 as claimed: the value pushed for a property is the identifier of every
\* created service that refers to it.
C13_Original ==
    \A n \in CallNumbers :
        calls[n].op = "updateProcessorProperties" =>
            \A s \in ServiceNumbers :
                \A key \in ReferencedKeys(calls[n].idx) :
                    (RefersTo(s, calls[n].idx, key) /\ ServiceCreated(s)) =>
                        ObjGet(calls[n].props, key) = RealizedServiceId(s)

\* C13, amended: the value pushed for a property that referenced_by entries
\* name is decided by the last service of the definition that refers to it,
\* whatever default, explicit or completion-rule value the key has: the
\* identifier of that service when it was created, undefined when it was
\* not.  A created processor with such a property always gets its property
\* update.
C13_LastReferenceWins ==
    /\ \A n \in CallNumbers :
          calls[n].op = "updateProcessorProperties" =>
              \A key \in ReferencedKeys(calls[n].idx) :
                  ObjGet(calls[n].props, key) =
                      IF ServiceCreated(LastReferrer(calls[n].idx, key))
                      THEN RealizedServiceId(LastReferrer(calls[n].idx, key))
                      ELSE Undefined
    /\ Returned =>
          \A j \in 0..(NumProcessors - 1) :
              (Created(j) /\ ReferencedKeys(j) # {}) =>
                  CallsFor("updateProcessorProperties", j) # {}

\* the one service that refers to "Quality of Service" was created, and its
\* identifier was pushed for a publisher that has a default of 1 and an
\* explicit value of 2 for that key
C13_Witness ==
    /\ NumServices(given) = 1
    /\ given.processors[1] = RichProcSpec("pub", 0)
    /\ ObjGet(DefaultProperties(given.processors[1].type), "Quality of Service") = "1"
    /\ ObjGet(given.processors[1].properties, "Quality of Service") = "2"
    /\ ServiceCreated(0)
    /\ \E n \in CallsFor("updateProcessorProperties", 0) :
          ObjGet(calls[n].props, "Quality of Service") = RealizedServiceId(0)

----------------------------------------------------------------------------
(* C15 *)

\* the resolved type of processor j matches the MQTT publish pattern
MatchesPublish(j) ==
    StrIncludes(ResolveProcessorType(given.processors[j + 1].type), "PublishMQTT")

\* the auto-terminate list the spec of processor j has, none counting as empty
ListedAutoTerminate(j) ==
    IF HasAutoTerminate(given.processors[j + 1])
    THEN given.processors[j + 1].auto_terminate
    ELSE << >>

Elements(arr) == {arr[n] : n \in 1..Len(arr)}

\* C15: the list pushed by an auto-terminate update of a publish-type
\* processor without outgoing connection starts with the spec's own list,
\* holds success and failure, and holds nothing else and nothing twice that
\* the spec did not; such a processor, once created, always gets the
\* update.  For any other processor the pushed list is the spec's own list,
\* and there is an update exactly when that list is not empty.
C15_SinkAutoTerminate ==
    /\ \A n \in CallNumbers :
          calls[n].op = "updateProcessorAutoTerminate" =>
              LET j == calls[n].idx
                  listed == ListedAutoTerminate(j)
                  pushed == calls[n].rels
              IN  IF MatchesPublish(j) /\ ~HasOutgoing(j)
                  THEN /\ {"success", "failure"} \subseteq Elements(pushed)
                       /\ Len(pushed) >= Len(listed)
                       /\ SubSeq(pushed, 1, Len(listed)) = listed
                       /\ Elements(pushed) = Elements(listed) \cup {"success", "failure"}
                       /\ Len(pushed) = Len(listed)
                              + Cardinality({"success", "failure"} \ Elements(listed))
                  ELSE pushed = listed
    /\ Returned =>
          \A j \in 0..(NumProcessors - 1) :
              Created(j) =>
                  (CallsFor("updateProcessorAutoTerminate", j) # {}
                      <=> \/ MatchesPublish(j) /\ ~HasOutgoing(j)
                          \/ ListedAutoTerminate(j) # << >>)

\* processor 0 is a publisher sink that listed failure and retry, processor 1
\* a publisher that listed both names and is the source of the connection:
\* success was added once to the first list, the second was pushed as listed
C15_Witness ==
    /\ NumProcessors = 2
    /\ given.connections = <<ConnSpec(1, 0)>>
    /\ ListedAutoTerminate(0) = <<"failure", "retry">>
    /\ MatchesPublish(0) /\ ~HasOutgoing(0)
    /\ \E n \in CallsFor("updateProcessorAutoTerminate", 0) :
          calls[n].rels = <<"failure", "retry", "success">>
    /\ MatchesPublish(1) /\ HasOutgoing(1)
    /\ \E n \in CallsFor("updateProcessorAutoTerminate", 1) :
          calls[n].rels = <<"success", "failure">>

----------------------------------------------------------------------------
(* C17 *)

\* a property map as the set of its entries, the key order left out
AsMap(obj) == {obj[n] : n \in 1..Len(obj)}

\* the same entries in every key order
KeyOrders(obj) ==
    {[n \in 1..Len(obj) |-> obj[f[n]]] :
        f \in {g \in [1..Len(obj) -> 1..Len(obj)] :
                  \A a, b \in 1..Len(obj) : g[a] = g[b] => a = b}}

\* the inputs and the result of the merge for processor j
CatalogDefaults(j) == DefaultProperties(given.processors[j + 1].type)

ExplicitProperties(j) == given.processors[j + 1].properties

Merged(j) == MergeProperties(CatalogDefaults(j), ExplicitProperties(j))

\* C17: the merged map of every processor has the keys of the defaults and
\* of the explicit properties and no other, each once; a key of the explicit
\* map has the explicit value, any other key its default; the entries are
\* the same for every key order of the two inputs; merging the result with
\* the explicit map again changes nothing; and the explicit value of a key
\* that no reference names is the value the property update pushes.
C17_MergeLaw ==
    \A j \in 0..(NumProcessors - 1) :
        LET d == CatalogDefaults(j)
            e == ExplicitProperties(j)
            m == Merged(j)
        IN  /\ ObjKeys(m) = ObjKeys(d) \cup ObjKeys(e)
            /\ Len(m) = Cardinality(ObjKeys(m))
            /\ \A k \in ObjKeys(e) : ObjGet(m, k) = ObjGet(e, k)
            /\ \A k \in ObjKeys(d) \ ObjKeys(e) : ObjGet(m, k) = ObjGet(d, k)
            /\ \A d2 \in KeyOrders(d) : \A e2 \in KeyOrders(e) :
                  AsMap(MergeProperties(d2, e2)) = AsMap(m)
            /\ MergeProperties(m, e) = m
            /\ \A n \in CallsFor("updateProcessorProperties", j) :
                  \A k \in ObjKeys(e) \ ReferencedKeys(j) :
                      ObjGet(calls[n].props, k) = ObjGet(e, k)

\* a logger whose two explicit properties both have a default, in the other
\* key order, got its property update with the explicit values
C17_Witness ==
    /\ given.processors[1] = RichProcSpec("log", 0)
    /\ ObjKeys(CatalogDefaults(0)) = ObjKeys(ExplicitProperties(0))
    /\ CatalogDefaults(0)[1][1] = ExplicitProperties(0)[2][1]
    /\ ObjGet(CatalogDefaults(0), "Log Level") = "info"
    /\ ReferencedKeys(0) = {}
    /\ \E n \in CallsFor("updateProcessorProperties", 0) :
          /\ ObjGet(calls[n].props, "Log Level") = "debug"
          /\ ObjGet(calls[n].props, "Log Payload") = "true"
          /\ Len(calls[n].props) = 2

----------------------------------------------------------------------------
(* The second realization driver: FlowBuilder.buildFlow of                  *)
(* src/src/nifi/flow-builder.ts, the class the conversation manager         *)
(* imports.  It has the phases of the driver above without the topology     *)
(* read, lays the processors out from constants, pushes the explicit        *)
(* properties only, infers no auto-termination and has no catch around the  *)
(* property update.  Its steps that are the same statement for statement    *)
(* are the actions above; the others follow, with the prefix Fb.            *)

FbStartX == 100
FbStartY == 100
FbSpacingY == 150

\* const position = { x: startX, y: startY + i * spacingY }
FbPosition(n) == [x |-> FbStartX, y |-> FbStartY + n * FbSpacingY]

\* { ...procDef.properties } with the service references replaced
FbProperties(def, n, idMap) ==
    ReplaceServiceReferences(ObjSpread(<< >>, def.processors[n + 1].properties),
                             def, n, idMap)

\* the service loop from service n on; the processor loop follows it
FbEnterService(def, n, res, idMap) ==
    IF n < NumServices(def)
    THEN [pc |-> "svcCreate", i |-> n, result |-> res]
    ELSE EnterProcessor(def, 0, res, idMap)

\* the catch of the service iteration
FbServiceCatch(def, n, res, idMap, msg) ==
    FbEnterService(def, n + 1,
        PushError(res, ErrorString("Failed to create controller service", n,
                                   <<def.controller_services[n + 1].name>>, msg)),
        idMap)

FbCurrentCall ==
    IF pc = "procCreate"
    THEN [CurrentCall EXCEPT !.x = FbPosition(i).x, !.y = FbPosition(i).y]
    ELSE CurrentCall

FbIssueCall ==
    /\ pc \in CallSites \ {"topology"}
    /\ ~awaiting
    /\ awaiting' = TRUE
    /\ calls' = Append(calls, FbCurrentCall)
    /\ UNCHANGED <<definition, given, pc, i, rootGroupId, result, serviceIdMap,
                   processorIdMap, processorVersionMap, version, startX,
                   properties, remoteClock, environment>>

FbResolveOk ==
    /\ pc = "resolve" /\ awaiting
    /\ calls' = [calls EXCEPT ![Awaited].outcome = "ok", ![Awaited].respId = RootGroupId]
    /\ rootGroupId' = Response.respId
    /\ Goto(FbEnterService(definition, 0,
                           [result EXCEPT !.processGroupId = Response.respId],
                           processorIdMap))
    /\ UNCHANGED <<definition, given, serviceIdMap, processorIdMap, processorVersionMap,
                   version, startX, properties, remoteClock, environment>>

FbSvcCreateFail ==
    /\ pc = "svcCreate" /\ awaiting
    /\ Throws
    /\ Goto(FbServiceCatch(definition, i, result, processorIdMap, Awaited))
    /\ UNCHANGED <<definition, given, rootGroupId, serviceIdMap, processorIdMap,
                   processorVersionMap, version, startX, properties, environment>>

FbSvcEnableOk ==
    /\ pc = "svcEnable" /\ awaiting
    /\ Accepts(FALSE)
    /\ Goto(FbEnterService(definition, i + 1, result, processorIdMap))
    /\ UNCHANGED <<definition, given, rootGroupId, serviceIdMap, processorIdMap,
                   processorVersionMap, version, startX, properties, environment>>

FbSvcEnableFail ==
    /\ pc = "svcEnable" /\ awaiting
    /\ Throws
    /\ Goto(FbServiceCatch(definition, i, result, processorIdMap, Awaited))
    /\ UNCHANGED <<definition, given, rootGroupId, serviceIdMap, processorIdMap,
                   processorVersionMap, version, startX, properties, environment>>

FbProcCreateOk ==
    /\ pc = "procCreate" /\ awaiting
    /\ Accepts(TRUE)
    /\ LET idMap == MapPut(processorIdMap, i, Response.respId)
           props == FbProperties(definition, i, serviceIdMap)
           res == [result EXCEPT !.processorIds = Append(@, Response.respId)]
       IN  /\ processorIdMap' = idMap
           /\ processorVersionMap' = MapPut(processorVersionMap, i, Response.respRevision)
           /\ properties' = props
           /\ IF Len(props) > 0
              THEN Goto([pc |-> "procProps", i |-> i, result |-> res])
              ELSE Goto(AfterProperties(definition, i, res, idMap))
    /\ UNCHANGED <<definition, given, rootGroupId, serviceIdMap, version, startX, environment>>

\* the property update has no catch of its own: the catch of the iteration
FbProcPropsFail ==
    /\ pc = "procProps" /\ awaiting
    /\ Throws
    /\ Goto(ProcessorCatch(definition, i, result, processorIdMap, Awaited))
    /\ UNCHANGED <<definition, given, rootGroupId, serviceIdMap, processorIdMap,
                   processorVersionMap, version, startX, properties, environment>>

FbNext ==
    \/ FbIssueCall
    \/ FbResolveOk \/ ResolveFail
    \/ SvcCreateOk \/ FbSvcCreateFail
    \/ FbSvcEnableOk \/ FbSvcEnableFail
    \/ FbProcCreateOk \/ ProcCreateFail
    \/ ProcPropsOk \/ FbProcPropsFail
    \/ ProcAutoOk \/ ProcAutoFail
    \/ ConnCreateOk \/ ConnCreateFail

FbInit == InitWith(Definitions, Topologies, {"VALID"})

FbSpec == FbInit /\ [][FbNext]_vars

\* the first driver, run in groups that hold different processors
LayoutInit == InitWith(Definitions, Topologies, {"VALID"})

LayoutSpec == LayoutInit /\ [][Next]_vars

----------------------------------------------------------------------------
(* C18 *)

\* the largest x-coordinate among the processors the group holds
MaxExistingX ==
    CHOOSE x \in {PositionX(existingProcessors[n]) : n \in 1..Len(existingProcessors)} :
        \A n \in 1..Len(existingProcessors) : PositionX(existingProcessors[n]) <= x

\* every createProcessor call places its processor in the column right of the
\* processors the group holds (the default column in an empty group), in the
\* row of its definition index
LayoutFromTopology(defaultColumn, firstRow, rowHeight) ==
    \A n \in CallNumbers :
        calls[n].op = "createProcessor" =>
            /\ calls[n].x = IF existingProcessors = << >> THEN defaultColumn
                            ELSE MaxExistingX + spacingX
            /\ calls[n].y = firstRow + calls[n].idx * rowHeight

\* the layout of the first driver, with its constants
ClientLayoutFromTopology == LayoutFromTopology(DefaultStartX, startY, spacingY)

\* C18 as claimed, for the driver of flow-builder.ts with its constants: the
\* x-coordinate of the new processors is the largest x-coordinate in the
\* group plus the horizontal spacing, or the default start offset in an
\* empty group; the y-coordinate of processor i is the start row plus i times
\* the row height.
C18_Original == LayoutFromTopology(FbStartX, FbStartY, FbSpacingY)

----------------------------------------------------------------------------
(* C21 *)

\* the first driver against a remote engine that reports its processors
\* VALID, or one that reports them INVALID
StatusInit == InitWith(Definitions, {BusyGroup}, ValidationStatuses)

StatusSpec == StatusInit /\ [][Next]_vars

\* a property update that succeeded with a status other than VALID
ReportedInvalid(n) ==
    /\ calls[n].op = "updateProcessorProperties"
    /\ Succeeded(n)
    /\ calls[n].respStatus # "VALID"

\* C21: a successful property update that reports a status other than VALID
\* writes no error (every entry of errors is the dangling-connection error or
\* quotes a failed call), the processor stays in processorIds, its tracked
\* revision is the one of the response and any later call on it carries that
\* revision, and a run without failed call and with existing indices still
\* returns success = true.
C21_InvalidStatusIsAdvisory ==
    /\ \A n \in CallNumbers :
          ReportedInvalid(n) =>
              /\ \A e \in ErrorNumbers : result.errors[e].msg # n
              /\ ArrIncludes(result.processorIds, calls[n].id)
              /\ \A m \in (n + 1)..Len(calls) :
                    calls[m].id = calls[n].id =>
                        calls[m].revision = calls[n].respRevision
              /\ (\A m \in (n + 1)..Len(calls) :
                      calls[m].id # calls[n].id \/ ~Succeeded(m)) =>
                    MapGet(processorVersionMap, calls[n].idx) = calls[n].respRevision
    /\ \A e \in ErrorNumbers :
          \/ result.errors[e].kind = "Cannot create connection"
          \/ /\ result.errors[e].msg \in CallNumbers
             /\ Failed(result.errors[e].msg)
    /\ (Returned /\ AllIndicesExist /\ \A n \in CallNumbers : ~Failed(n)) =>
          result.success

\* a run that returned success although a property update was answered
\* INVALID, the auto-terminate update after it carrying the revision of that
\* answer
C21_Witness ==
    /\ Returned /\ result.success
    /\ \E n, m \in CallNumbers :
          /\ ReportedInvalid(n)
          /\ n < m
          /\ calls[m].op = "updateProcessorAutoTerminate"
          /\ calls[m].id = calls[n].id
          /\ calls[m].revision = calls[n].respRevision

----------------------------------------------------------------------------
(* C23 *)

CreateNumbers == {n \in CallNumbers : calls[n].op = "createProcessor"}

\* the x-coordinates of the processors the group held when it was read (a
\* processor without position has none)
ExistingXs ==
    {existingProcessors[n].x :
        n \in {m \in 1..Len(existingProcessors) : existingProcessors[m].hasPosition}}

\* C23: every createProcessor call of a run places its processor at an
\* x-coordinate strictly greater than the x-coordinate of every processor the
\* group held when the topology was read, and no two createProcessor calls of
\* the run carry the same (x, y) position, whatever the outcome of the calls
\* between them.
C23_NoOverlap ==
    /\ \A n \in CreateNumbers : \A x \in ExistingXs : calls[n].x > x
    /\ \A n, m \in CreateNumbers :
          n # m => <<calls[n].x, calls[n].y>> # <<calls[m].x, calls[m].y>>

\* a group that holds processors, the creation of the first processor failed
\* and the second one was created, in its own row right of the group
C23_Witness ==
    /\ Returned
    /\ ExistingXs # {}
    /\ \E n, m \in CreateNumbers :
          /\ n < m
          /\ Failed(n)
          /\ Succeeded(m)
          /\ calls[m].y = startY + spacingY

----------------------------------------------------------------------------
(* C24 *)

(* Definitions for the completion rules: generators, MQTT consumers and      *)
(* publishers whose explicit properties leave the completed keys out, give   *)
(* them a value, or give them the empty string                               *)

CompletionKinds == {"gen", "genEmpty", "genText", "consume", "consumeEmpty",
                    "pubEmpty", "logText"}

CompletionProcSpec(kind, n) ==
    CASE kind = "gen" ->
            [name |-> ProcName(n), type |-> <<"GenerateFlowFile">>,
             properties |-> << >>]
      [] kind = "genEmpty" ->
            [name |-> ProcName(n), type |-> <<"GenerateFlowFile">>,
             properties |-> << <<"Custom Text", "">> >>]
      [] kind = "genText" ->
            [name |-> ProcName(n), type |-> <<"GenerateFlowFile">>,
             properties |-> << <<"Data Format", "Binary">>,
                               <<"Custom Text", "hello">> >>]
      [] kind = "consume" ->
            [name |-> ProcName(n), type |-> <<"ConsumeMQTT">>,
             properties |-> << <<"Quality of Service", "0">> >>]
      [] kind = "consumeEmpty" ->
            [name |-> ProcName(n), type |-> <<"com.acme.", "ConsumeMQTT">>,
             properties |-> << <<"Quality of Service", "">> >>]
      [] kind = "pubEmpty" ->
            [name |-> ProcName(n), type |-> <<"PublishMQTT">>,
             properties |-> << <<"Retain Message", "">> >>]
      [] kind = "logText" ->
            [name |-> ProcName(n), type |-> <<"LogAttribute">>,
             properties |-> << <<"Custom Text", "">> >>]

CompletionProcessorLists ==
    {[n \in 1..Len(kinds) |-> CompletionProcSpec(kinds[n], n - 1)] :
        kinds \in [1..1 -> CompletionKinds] \cup [1..2 -> CompletionKinds]}

CompletionDefinitions ==
    {[processors |-> ps, connections |-> cs] :
        ps \in CompletionProcessorLists, cs \in {<< >>, <<ConnSpec(0, 1)>>}}
    \cup
    {[processors |-> ps, connections |-> << >>,
      controller_services |-> <<RichSvcSpec("plain", 0)>>] :
        ps \in CompletionProcessorLists}

CompletionInit == InitWith(CompletionDefinitions, {BusyGroup}, {"VALID"})

CompletionSpec == CompletionInit /\ [][Next]_vars

\* the completion rules as a table: the pattern looked for in the resolved
\* type, the key and the value written
CompletionTable ==
    { [pattern |-> "PublishMQTT", key |-> "Retain Message", value |-> "false"],
      [pattern |-> "PublishMQTT", key |-> "Quality of Service", value |-> "1"],
      [pattern |-> "ConsumeMQTT", key |-> "Quality of Service", value |-> "1"],
      [pattern |-> "GenerateFlowFile", key |-> "Custom Text", value |-> CustomTextSample],
      [pattern |-> "GenerateFlowFile", key |-> "Data Format", value |-> "Text"] }

\* the rules that apply to processor j
RulesFor(j) ==
    {r \in CompletionTable :
        StrIncludes(ResolveProcessorType(given.processors[j + 1].type), r.pattern)}

KeyAbsent(obj, k) == k \notin ObjKeys(obj)

KeyFalsy(obj, k) == Falsy(ObjGet(obj, k))

\* what the property update of every processor pushes, given the test Missing
\* that decides whether a rule writes its key: a rule that applies writes its
\* value when the key is missing from the merged map, and every other key of
\* the merged map keeps its value; no other key is pushed
CompletionLaw(Missing(_, _)) ==
    \A j \in 0..(NumProcessors - 1) :
        \A n \in CallsFor("updateProcessorProperties", j) :
            LET m == Merged(j)
                pushed == calls[n].props
                written == {r \in RulesFor(j) : Missing(m, r.key)}
            IN  /\ \A r \in written : ObjGet(pushed, r.key) = r.value
                /\ \A k \in ObjKeys(m) \ {r.key : r \in written} :
                      ObjGet(pushed, k) = ObjGet(m, k)
                /\ ObjKeys(pushed) = ObjKeys(m) \cup {r.key : r \in written}

\* the rules as the code applies them: a key counts as missing when its value
\* is falsy
CompletionAsCoded == CompletionLaw(KeyFalsy)

\* C24 as claimed: a completion rule writes its property only when the
\* resolved type matches its pattern and the key is absent from the merged
\* map; a key that is present in the merged map keeps its value, whatever that
\* value is.
C24_Original == CompletionLaw(KeyAbsent)

\* a generator given the empty Custom Text got the sample text pushed
C24_EmptyOverwritten ==
    /\ given.processors[1] = CompletionProcSpec("genEmpty", 0)
    /\ \E n \in CallsFor("updateProcessorProperties", 0) :
          ObjGet(calls[n].props, "Custom Text") = CustomTextSample

----------------------------------------------------------------------------
(* C25 *)

\* procDef.auto_terminate && procDef.auto_terminate.length > 0, as the
\* definition stands once processor j has been gone through
WantsAutoTerminate(j) ==
    /\ HasAutoTerminate(definition.processors[j + 1])
    /\ Len(definition.processors[j + 1].auto_terminate) > 0

\* the failures of the configuration steps are contained per step: at the
\* return, a processor whose property update failed and that has
\* relationships to auto-terminate got its auto-terminate update, and every
\* processor after one whose property or auto-terminate update failed got its
\* createProcessor call; each such failure is quoted by exactly one error,
\* which names the processor
ContainedPerStep ==
    \A n \in CallNumbers :
        (calls[n].op \in ConfigOps /\ Failed(n)) =>
            /\ Cardinality({e \in ErrorNumbers : result.errors[e].msg = n}) = 1
            /\ \A e \in ErrorNumbers :
                  result.errors[e].msg = n =>
                      ArrIncludes(result.errors[e].names,
                                  given.processors[calls[n].idx + 1].name)
            /\ Returned =>
                  /\ (calls[n].op = "updateProcessorProperties"
                      /\ WantsAutoTerminate(calls[n].idx)) =>
                        CallsFor("updateProcessorAutoTerminate", calls[n].idx) # {}
                  /\ \A j \in (calls[n].idx + 1)..(NumProcessors - 1) :
                        CallsFor("createProcessor", j) # {}

\* C25 as claimed, for the driver of flow-builder.ts: a failed property update
\* of a processor does not prevent the auto-terminate update of that
\* processor, a failed property or auto-terminate update does not prevent the
\* creation of any later processor, and each such failure appends exactly one
\* error that contains the processor's name.
C25_Original == ContainedPerStep

\* the driver of flow-builder.ts returned without the auto-terminate update
\* of a processor whose property update failed
C25_AutoTerminateSkipped ==
    /\ Returned
    /\ \E n \in CallNumbers :
          /\ calls[n].op = "updateProcessorProperties"
          /\ Failed(n)
          /\ WantsAutoTerminate(calls[n].idx)
          /\ CallsFor("updateProcessorAutoTerminate", calls[n].idx) = {}

\* the first driver issued the auto-terminate update after the failed
\* property update, and created the processor after it
C25_ClientContained ==
    /\ Returned
    /\ \E n \in CallsFor("updateProcessorProperties", 0) :
          /\ Failed(n)
          /\ \E m \in CallsFor("updateProcessorAutoTerminate", 0) : n < m
          /\ \E c \in CallsFor("createProcessor", 1) : n < c

----------------------------------------------------------------------------
(* C26 *)

\* the final property map of processor j, from the definition as given and
\* the service identifiers realized
FinalMap(j) == FinalProperties(given, j, serviceIdMap)

\* C26: for every created processor at most one property update is issued,
\* and it carries the final property map, which has an entry; at the return
\* the update was issued if and only if the final map has an entry; when the
\* map is empty, the auto-terminate update of the processor carries the
\* revision the create returned, and without such an update the tracked
\* revision is still that one at the return.
C26_UpdateIffNonEmpty ==
    \A j \in 0..(NumProcessors - 1) :
        \A c \in CallsFor("createProcessor", j) :
            Succeeded(c) =>
                LET updates == CallsFor("updateProcessorProperties", j)
                    autos == CallsFor("updateProcessorAutoTerminate", j)
                IN  /\ Cardinality(updates) <= 1
                    /\ \A n \in updates :
                          /\ calls[n].props = FinalMap(j)
                          /\ Len(FinalMap(j)) > 0
                    /\ Returned => (updates # {} <=> Len(FinalMap(j)) > 0)
                    /\ Len(FinalMap(j)) = 0 =>
                          /\ \A a \in autos : calls[a].revision = calls[c].respRevision
                          /\ (Returned /\ autos = {}) =>
                                MapGet(processorVersionMap, j) = calls[c].respRevision

\* a returned run with a processor of empty final map, created and then
\* auto-terminated at the revision of the create without a property update,
\* and another whose only entry is the reference to a service that was not
\* created, which got its update
C26_Witness ==
    /\ Returned
    /\ \E j \in 0..(NumProcessors - 1) :
          /\ Len(FinalMap(j)) = 0
          /\ CallsFor("updateProcessorProperties", j) = {}
          /\ \E c \in CallsFor("createProcessor", j) :
                /\ Succeeded(c)
                /\ \E a \in CallsFor("updateProcessorAutoTerminate", j) :
                      calls[a].revision = calls[c].respRevision
    /\ \E j \in 0..(NumProcessors - 1) :
          /\ Len(FinalMap(j)) = 1
          /\ FinalMap(j)[1][2] = Undefined
          /\ \E n \in CallsFor("updateProcessorProperties", j) :
                calls[n].props = FinalMap(j)

----------------------------------------------------------------------------
(* C27 *)

\* the identifiers the successful calls of an operation returned, among the
\* first n calls, in call order
RECURSIVE ResponseIds(_, _)
ResponseIds(op, n) ==
    IF n = 0 THEN << >>
    ELSE IF calls[n].op = op /\ Succeeded(n)
         THEN Append(ResponseIds(op, n - 1), calls[n].respId)
         ELSE ResponseIds(op, n - 1)

\* the identifier realized for processor j
RealizedProcessorId(j) ==
    calls[CHOOSE n \in CallsFor("createProcessor", j) : Succeeded(n)].respId

\* C27: every createConnection call for a connection whose two processors
\* were created carries the identifier realized for processors[from_index] as
\* source, the one realized for processors[to_index] as destination and the
\* relationship list of the definition, and at the return every such
\* connection got exactly one call; the calls go out in definition order and
\* connectionIds is the list of the identifiers of the successful ones in that
\* order; a failed create is quoted by exactly one error, and the connections
\* after it are processed all the same.
C27_ConnectionsAsDefined ==
    /\ \A k \in ConnectionNumbers :
          ~MissingEndpoint(k) =>
              /\ \A c \in CallsFor("createConnection", k) :
                    /\ calls[c].sourceId =
                          RealizedProcessorId(given.connections[k + 1].from_index)
                    /\ calls[c].destId =
                          RealizedProcessorId(given.connections[k + 1].to_index)
                    /\ calls[c].rels = given.connections[k + 1].relationships
                    /\ calls[c].groupId = rootGroupId
              /\ Returned => Cardinality(CallsFor("createConnection", k)) = 1
    /\ \A n, m \in CallNumbers :
          (/\ calls[n].op = "createConnection"
           /\ calls[m].op = "createConnection"
           /\ n < m) => calls[n].idx < calls[m].idx
    /\ result.connectionIds = ResponseIds("createConnection", Len(calls))
    /\ \A n \in CallNumbers :
          (calls[n].op = "createConnection" /\ Failed(n)) =>
              /\ Cardinality({e \in ErrorNumbers : result.errors[e].msg = n}) = 1
              /\ Returned =>
                    \A k \in (calls[n].idx + 1)..(NumConnections - 1) : Processed(k)

\* two connections between created processors both made: connectionIds holds
\* the two identifiers in definition order
C27_Witness ==
    /\ Returned
    /\ NumConnections = 2
    /\ \E a \in CallsFor("createConnection", 0) :
       \E b \in CallsFor("createConnection", 1) :
          /\ Succeeded(b)
          /\ calls[b].sourceId = RealizedProcessorId(0)
          /\ calls[b].destId = RealizedProcessorId(1)
          /\ calls[b].rels = given.connections[2].relationships
          /\ Succeeded(a)
          /\ result.connectionIds = <<calls[a].respId, calls[b].respId>>

----------------------------------------------------------------------------
(* C28 *)

\* C28: at every moment of a run, and so at every return, the return from
\* the outer catch included, processorIds, controllerServiceIds and
\* connectionIds are the lists of the identifiers the successful
\* createProcessor, createControllerService and createConnection calls
\* returned, in the order of the calls, and no identifier is in a list twice.
C28_ResultListsComplete ==
    /\ result.processorIds = ResponseIds("createProcessor", Len(calls))
    /\ result.controllerServiceIds = ResponseIds("createControllerService", Len(calls))
    /\ result.connectionIds = ResponseIds("createConnection", Len(calls))
    /\ \A ids \in {result.processorIds, result.controllerServiceIds,
                   result.connectionIds} :
          Cardinality(Elements(ids)) = Len(ids)

\* a run that the outer catch ended after two services were created returns
\* their two identifiers
C28_Witness ==
    /\ Aborted
    /\ Len(result.controllerServiceIds) = 2
    /\ result.controllerServiceIds = ResponseIds("createControllerService", Len(calls))
    /\ \E n \in CallNumbers : calls[n].op = "getProcessGroupFlow" /\ Failed(n)

----------------------------------------------------------------------------
(* C29 *)

\* service s was created and its enable call failed
EnableFailed(s) ==
    /\ ServiceCreated(s)
    /\ \E n \in CallsFor("enableControllerService", s) : Failed(n)

\* service s is the last of the definition to reference property key of
\* processor j
LastToReference(s, j, key) == RefersTo(s, j, key) /\ LastReferrer(j, key) = s

\* what becomes of a service that was created and could not be enabled, and
\* when the enable call is made; Owns(s, j, key) says for which properties
\* the identifier of the service is the value pushed
EnableFailureLaw(Owns(_, _, _)) ==
    /\ \A s \in ServiceNumbers :
          EnableFailed(s) =>
              /\ ArrIncludes(result.controllerServiceIds, RealizedServiceId(s))
              /\ MapGet(serviceIdMap, s) = RealizedServiceId(s)
              /\ \A j \in 0..(NumProcessors - 1) :
                    \A key \in ReferencedKeys(j) :
                        Owns(s, j, key) =>
                            \A n \in CallsFor("updateProcessorProperties", j) :
                                ObjGet(calls[n].props, key) = RealizedServiceId(s)
              /\ Cardinality({e \in ErrorsOfKind("Failed to create controller service") :
                                 result.errors[e].idx = s}) = 1
    /\ \A n \in CallNumbers :
          calls[n].op = "enableControllerService" =>
              /\ n > 1
              /\ calls[n - 1].op = "createControllerService"
              /\ calls[n - 1].idx = calls[n].idx
              /\ Succeeded(n - 1)
              /\ calls[n].id = calls[n - 1].respId
              /\ calls[n].revision = calls[n - 1].respRevision
    /\ \A n \in CallNumbers :
          (calls[n].op = "createControllerService" /\ Succeeded(n) /\ n < Len(calls)) =>
              /\ calls[n + 1].op = "enableControllerService"
              /\ calls[n + 1].idx = calls[n].idx
    /\ \A s \in ServiceNumbers :
          Returned /\ ServiceCreated(s) => CallsFor("enableControllerService", s) # {}

\* C29 as claimed: a controller service that was created and could not be
\* enabled stays in controllerServiceIds and in the identifier map, is
\* substituted into every processor property that references it, and
\* contributes exactly one error; enableControllerService is issued for a
\* service if and only if its create call succeeded.
C29_Original == EnableFailureLaw(RefersTo)

\* C29, amended: a controller service that was created and could not be
\* enabled stays in controllerServiceIds and in the identifier map, its
\* identifier is the value pushed for every processor property it is the
\* last service of the definition to reference, and exactly one error is
\* written for it; enableControllerService is called for a service only after
\* its create call succeeded, with the identifier and the revision that call
\* returned, and it is the call that follows every successful create.
C29_EnableFailureKeepsService == EnableFailureLaw(LastToReference)

\* a returned run with a service created but not enabled, whose identifier
\* was pushed to the processor that references it
C29_Witness ==
    /\ Returned
    /\ \E s \in ServiceNumbers :
          /\ EnableFailed(s)
          /\ \E j \in 0..(NumProcessors - 1) :
             \E key \in ReferencedKeys(j) :
                /\ LastToReference(s, j, key)
                /\ \E n \in CallsFor("updateProcessorProperties", j) :
                      ObjGet(calls[n].props, key) = RealizedServiceId(s)

----------------------------------------------------------------------------
(* The conversation: OpenAIService (openai/service.ts 56-177) and the loop  *)
(* of ConversationManager (conversation/manager.ts 27-178).  The loop is     *)
(* synchronous between its reads of the terminal and its awaits, so there   *)
(* is one action for each line read and one for each way the model's reply  *)
(* can come back.  buildFlow, awaited by handleFlowCreation, is the subject *)
(* of the specifications above; it writes none of the variables here.       *)

MaxRequests == 3
MaxToolCalls == 2

\* what buildFlow writes, and the remote engine
builder == <<definition, given, pc, i, awaiting, rootGroupId, result, serviceIdMap,
             processorIdMap, processorVersionMap, version, startX, properties,
             calls, remoteClock, remote>>

\* the lines a user types
Inputs == {"exit", "Reset", "  ", "mqtt to file"}

\* String.prototype.toLowerCase and trim, on the lines above
ToLowerCase(s) == IF s = "Reset" THEN "reset" ELSE s

Trim(s) == IF s = "  " THEN "" ELSE s

\* messageContent of processMessage: the collected parameters are added to
\* the text when there are any
MessageContent(userMessage, params) ==
    IF Cardinality(ObjKeys(params)) > 0 THEN [userMessage EXCEPT !.params = params]
    ELSE userMessage

\* the functions the model is offered, and a name outside them
FunctionNames == {"analyze_etl_request", "create_nifi_flow", "request_clarification",
                  "some_other_function"}

\* the missing_parameters lists an analysis can carry (the names only)
MissingLists == {<< >>, <<"broker_uri">>, <<"broker_uri", "topic">>}

\* toolCall.function.arguments: a JSON text, or a text JSON.parse rejects
Arguments ==
    {[json |-> TRUE, missing_parameters |-> m] : m \in MissingLists}
    \cup {[json |-> FALSE, missing_parameters |-> << >>]}

\* a tool call of the model's reply; the model numbers its calls
ToolCall(id, name, arguments) == [id |-> id, name |-> name, arguments |-> arguments]

\* the tool_calls lists of a reply: none, one call, or more calls of which
\* the later ones ask for a flow
ToolCallLists ==
    {<< >>}
    \cup
    {[n \in 1..len |->
        ToolCall(toolCallCount + n,
                 IF n = 1 THEN name ELSE "create_nifi_flow",
                 IF n = 1 THEN arguments ELSE [json |-> TRUE, missing_parameters |-> << >>])] :
        len \in 1..MaxToolCalls, name \in FunctionNames, arguments \in Arguments}

\* response.choices[0].message
AssistantMessage(toolCalls) ==
    [Message("assistant", Content(IF toolCalls = << >> THEN "text" ELSE ""))
        EXCEPT !.tool_calls = toolCalls]

\* the message pushed for a tool call: "Add function result to history
\* (simulated)"
ToolMessage(toolCall) ==
    [Message("tool", [Content("acknowledged") EXCEPT !.function = toolCall.name])
        EXCEPT !.tool_call_id = toolCall.id]

\* the type of the AgentResponse for the function of the first tool call
ResponseType(functionName) ==
    CASE functionName = "analyze_etl_request"   -> "analysis"
      [] functionName = "create_nifi_flow"      -> "flow"
      [] functionName = "request_clarification" -> "clarification"
      [] OTHER                                  -> "message"

\* processMessage up to its await (72-89): the user message is pushed and the
\* whole history is sent
StartProcessMessage(userMessage) ==
    LET history == Append(conversationHistory,
                          Message("user", MessageContent(userMessage, collectedParams)))
    IN  /\ conversationHistory' = history
        /\ requests' = Append(requests, history)
        /\ at' = "completion"

\* the refinement prompt quotes the analysis and the collected parameters
RefinementPrompt(analysis, params) ==
    [Content("refine") EXCEPT !.analysis = analysis, !.quoted = params]

----------------------------------------------------------------------------
(* startConversation (manager.ts 34-54) *)

ReadExit ==
    /\ at = "prompt"
    /\ \E input \in Inputs :
          /\ ToLowerCase(input) = "exit"
          /\ userInput' = input
    /\ at' = "exited"
    /\ UNCHANGED <<conversationHistory, collectedParams, missing, response,
                   requests, toolCallCount, builder>>

\* fault: reset starts the history over and keeps the parameters
ReadResetKeepsParams ==
    /\ at = "prompt"
    /\ \E input \in Inputs :
          /\ ToLowerCase(input) = "reset"
          /\ userInput' = input
    /\ conversationHistory' = SystemOnly
    /\ UNCHANGED <<collectedParams, at, missing, response, requests, toolCallCount,
                   builder>>

\* this.openai.resetConversation(); this.collectedParams = {}; continue
ReadReset ==
    /\ at = "prompt"
    /\ \E input \in Inputs :
          /\ ToLowerCase(input) = "reset"
          /\ userInput' = input
    /\ conversationHistory' = SystemOnly
    /\ collectedParams' = << >>
    /\ UNCHANGED <<at, missing, response, requests, toolCallCount, builder>>

\* if (!userInput.trim()) continue
ReadBlank ==
    /\ at = "prompt"
    /\ \E input \in Inputs :
          /\ ToLowerCase(input) \notin {"exit", "reset"}
          /\ Trim(input) = ""
          /\ userInput' = input
    /\ UNCHANGED <<conversationHistory, collectedParams, at, missing, response,
                   requests, toolCallCount, builder>>

\* processUserInput: processMessage(input, this.collectedParams) up to its await
ProcessUserInput ==
    /\ at = "prompt"
    /\ Len(requests) < MaxRequests
    /\ \E input \in Inputs :
          /\ ToLowerCase(input) \notin {"exit", "reset"}
          /\ Trim(input) # ""
          /\ userInput' = input
          /\ StartProcessMessage(Content(input))
    /\ UNCHANGED <<collectedParams, missing, response, toolCallCount, builder>>

----------------------------------------------------------------------------
(* processMessage after its await (service.ts 91-122) and handleResponse    *)
(* (manager.ts 67-82) up to the next read or await                          *)

\* the request is rejected: the catch of processUserInput (62-64)
CompletionFails ==
    /\ at = "completion"
    /\ at' = "prompt"
    /\ response' = NoResponse
    /\ missing' = << >>
    /\ UNCHANGED <<conversationHistory, collectedParams, userInput, requests,
                   toolCallCount, builder>>

\* a reply without tool calls: "Regular text response"
ReplyText ==
    /\ at = "completion"
    /\ conversationHistory' = Append(conversationHistory, AssistantMessage(<< >>))
    /\ response' = [type |-> "message"]
    /\ at' = "prompt"
    /\ missing' = << >>
    /\ UNCHANGED <<collectedParams, userInput, requests, toolCallCount, builder>>

\* a reply whose first tool call has arguments that JSON.parse rejects: the
\* assistant message is in the history (94) and processMessage throws at 100
ReplyUnparsable ==
    /\ at = "completion"
    /\ \E toolCalls \in ToolCallLists :
          /\ toolCalls # << >>
          /\ ~toolCalls[1].arguments.json
          /\ conversationHistory' = Append(conversationHistory, AssistantMessage(toolCalls))
          /\ toolCallCount' = toolCallCount + Len(toolCalls)
    /\ response' = NoResponse
    /\ at' = "prompt"
    /\ missing' = << >>
    /\ UNCHANGED <<collectedParams, userInput, requests, builder>>

\* the history after a reply with tool calls: the assistant message, then
\* the tool message for tool_calls[0] (94-107)
AfterToolCalls(toolCalls) ==
    Append(Append(conversationHistory, AssistantMessage(toolCalls)),
           ToolMessage(toolCalls[1]))

\* a reply with tool calls whose first one parses: the response goes by the
\* function name of the first call, and handleResponse runs up to its next
\* read
ReplyToolCalls ==
    /\ at = "completion"
    /\ \E toolCalls \in ToolCallLists :
          /\ toolCalls # << >>
          /\ toolCalls[1].arguments.json
          /\ LET type == ResponseType(toolCalls[1].name)
                 asked == toolCalls[1].arguments.missing_parameters
             IN  /\ (type = "analysis" /\ asked # << >>) => Len(requests) < MaxRequests
                 /\ conversationHistory' = AfterToolCalls(toolCalls)
                 /\ toolCallCount' = toolCallCount + Len(toolCalls)
                 /\ response' = [type |-> type]
                 /\ missing' = IF type = "analysis" THEN asked ELSE << >>
                 /\ at' = CASE type = "analysis" /\ asked # << >> -> "params"
                            [] type = "flow" -> "confirm"
                            [] OTHER -> "prompt"
    /\ UNCHANGED <<collectedParams, userInput, requests, builder>>

----------------------------------------------------------------------------
(* handleAnalysis (manager.ts 98-127) and handleFlowCreation (130-167) *)

\* one parameter is asked for: its trimmed value is kept, or nothing is when
\* the line is blank (and, for a required one, blank again); after the last
\* one refineWithParameters sends the refinement prompt
AnswerParam ==
    /\ at = "params"
    /\ \E kept \in BOOLEAN :
          LET params == IF kept THEN ObjPut(collectedParams, Head(missing), "value")
                        ELSE collectedParams
              history == Append(conversationHistory,
                                Message("user",
                                        MessageContent(RefinementPrompt(<<Head(missing)>>, params),
                                                       params)))
          IN  /\ collectedParams' = params
              /\ missing' = Tail(missing)
              /\ IF Tail(missing) = << >>
                 THEN /\ conversationHistory' = history
                      /\ requests' = Append(requests, history)
                      /\ at' = "completion"
                 ELSE UNCHANGED <<conversationHistory, requests, at>>
    /\ UNCHANGED <<userInput, response, toolCallCount, builder>>

\* the user declines: "Flow creation cancelled"
ConfirmNo ==
    /\ at = "confirm"
    /\ at' = "prompt"
    /\ UNCHANGED <<conversationHistory, collectedParams, userInput, missing, response,
                   requests, toolCallCount, builder>>

\* the user confirms: buildFlow runs and returns, then "Reset for next flow"
ConfirmYes ==
    /\ at = "confirm"
    /\ collectedParams' = << >>
    /\ at' = "prompt"
    /\ UNCHANGED <<conversationHistory, userInput, missing, response, requests,
                   toolCallCount, builder>>

ConversationNext ==
    \/ ReadExit \/ ReadReset \/ ReadBlank \/ ProcessUserInput
    \/ CompletionFails \/ ReplyText \/ ReplyUnparsable \/ ReplyToolCalls
    \/ AnswerParam \/ ConfirmNo \/ ConfirmYes

\* the conversation with the builder idle
ConversationSpecInit ==
    InitWith({[processors |-> <<ProcSpec("bare", 0)>>, connections |-> << >>]},
             {<< >>}, {"VALID"})

ConversationSpec == ConversationSpecInit /\ [][ConversationNext]_vars

----------------------------------------------------------------------------
(* C22 *)

\* nothing of an earlier conversation is left
Clean == conversationHistory = SystemOnly /\ collectedParams = << >>

\* the message list of the request sent last
LastRequest == requests[Len(requests)]

\* C22: a step of the loop that reads reset (in any letter case) at the
\* prompt leaves the history with the system prompt only and the collected
\* parameters empty; and the request sent from such a state consists of the
\* system prompt and the user's line alone, without collected parameters.
C22_ResetStartsOver ==
    [][ /\ (at = "prompt" /\ ToLowerCase(userInput') = "reset") => Clean'
        /\ (Clean /\ at = "prompt" /\ at' = "completion") =>
              /\ Len(requests') = Len(requests) + 1
              /\ LastRequest' = << Message("system", systemPrompt),
                                   Message("user", Content(userInput')) >>
      ]_vars

\* a request that carried collected parameters and a longer history, then a
\* reset, and the request sent after it: the system prompt and the new line
C22_Witness ==
    /\ Len(requests) >= 2
    /\ Len(requests[Len(requests) - 1]) > 2
    /\ \E n \in 1..Len(requests[Len(requests) - 1]) :
          requests[Len(requests) - 1][n].content.params # << >>
    /\ LastRequest = << Message("system", systemPrompt),
                        Message("user", Content("mqtt to file")) >>

----------------------------------------------------------------------------
(* C30 *)

\* the last processMessage call has returned
ProcessMessageReturned == response # NoResponse /\ at # "completion"

\* the tool message that answers tool call t of message n is in the history
\* after it
Answered(n, t) ==
    \E m \in (n + 1)..Len(conversationHistory) :
        /\ conversationHistory[m].role = "tool"
        /\ conversationHistory[m].tool_call_id = conversationHistory[n].tool_calls[t].id

\* every assistant message of the history has the tool messages of its first
\* calls tool calls (of all of them, for calls = MaxToolCalls)
AnsweredUpTo(count) ==
    \A n \in 1..Len(conversationHistory) :
        conversationHistory[n].role = "assistant" =>
            \A t \in 1..Len(conversationHistory[n].tool_calls) :
                t <= count => Answered(n, t)

\* C30 as claimed: after every processMessage call that returns, each
\* assistant message of the history that carries tool calls is followed by a
\* tool message for every one of its tool-call identifiers, for any number of
\* tool calls in the reply.
C30_Original == ProcessMessageReturned => AnsweredUpTo(MaxToolCalls)

\* processMessage returned an analysis from a reply with two tool calls, and
\* the second one has no tool message
C30_SecondCallUnanswered ==
    /\ ProcessMessageReturned
    /\ LET n == Len(conversationHistory) - 1
       IN  /\ n >= 1
           /\ conversationHistory[n].role = "assistant"
           /\ Len(conversationHistory[n].tool_calls) = 2
           /\ Answered(n, 1)
           /\ ~Answered(n, 2)

\* what the code keeps: the message pushed by a processMessage call that
\* returned with tool calls is followed by the tool message of its first call
FirstCallAnswered ==
    (ProcessMessageReturned /\ response.type # "message"
     /\ conversationHistory # SystemOnly) =>
        LET n == Len(conversationHistory) - 1
        IN  /\ conversationHistory[n].role = "assistant"
            /\ conversationHistory[n + 1] = ToolMessage(conversationHistory[n].tool_calls[1])

====
